---- MODULE Spec2Model ----
(***************************************************************************)
(* Model of the sen66-interface driver: the Sen66 protocol engine of       *)
(* src/interface.rs with its command catalogue (src/command.rs), the word  *)
(* codec (src/util.rs) and the value types of src/configuration and        *)
(* src/data.  One driver instance talks to one I2C transport and one       *)
(* delay provider; each public operation runs as the sequence of awaits    *)
(* the code performs: write, delay, (read), then the operation's tail.     *)
(***************************************************************************)
EXTENDS Integers, Sequences, FiniteSets, TLC

VARIABLES
    state,            \* Sen66.state: "Idle" or "Measuring"
    owner,            \* who holds delay and i2c: "driver", "caller", "dropped"
    pc,               \* position of the call in flight
    cur,              \* the call in flight (or the last one)
    log,              \* bus and delay requests made by that call, in order
    received,         \* the buffer filled by the transport read
    result,           \* what the last call returned
    overflow_checks   \* build profile: integer overflow panics or wraps

vars == <<state, owner, pc, cur, log, received, result, overflow_checks>>

(***************************************************************************)
(* Fixed-width integer helpers (u8 / u16 / i16 as used by the code).       *)
(***************************************************************************)
RECURSIVE BitXor(_, _)
BitXor(a, b) ==
    IF a = 0 THEN b
    ELSE IF b = 0 THEN a
    ELSE (((a % 2) + (b % 2)) % 2) + 2 * BitXor(a \div 2, b \div 2)

RECURSIVE BitAnd(_, _)
BitAnd(a, b) ==
    IF a = 0 \/ b = 0 THEN 0
    ELSE ((a % 2) * (b % 2)) + 2 * BitAnd(a \div 2, b \div 2)

RECURSIVE BitOr(_, _)
BitOr(a, b) ==
    IF a = 0 THEN b
    ELSE IF b = 0 THEN a
    ELSE (IF a % 2 = 1 \/ b % 2 = 1 THEN 1 ELSE 0) + 2 * BitOr(a \div 2, b \div 2)

\* u16::to_be_bytes
to_be_bytes(w) == <<w \div 256, w % 256>>

\* u16::from_be_bytes
u16_from_be_bytes(hi, lo) == hi * 256 + lo

\* variant: the word is read as unsigned
i16_from_be_bytes_unsigned(hi, lo) == hi * 256 + lo

\* i16::from_be_bytes (two's complement)
i16_from_be_bytes(hi, lo) ==
    LET u == hi * 256 + lo IN IF u >= 32768 THEN u - 65536 ELSE u

\* `x as u16` for an i16 x
as_u16(x) == (x + 65536) % 65536

(***************************************************************************)
(* Results.                                                                *)
(***************************************************************************)
Ok(v) == [kind |-> "Ok", value |-> v]
Err(e) == [kind |-> "Err", value |-> e]
Panic == [kind |-> "Panic", value |-> <<>>]

ValueOutOfRange(parameter, min, max, unit) ==
    [err |-> "ValueOutOfRange", parameter |-> parameter, min |-> min,
     max |-> max, unit |-> unit]

UnexpectedValueReceived(parameter, expected, actual) ==
    [err |-> "UnexpectedValueReceived", parameter |-> parameter,
     expected |-> expected, actual |-> actual]

CrcFailed == [err |-> "CrcFailed"]
ReceivedBufferWrongSize == [err |-> "ReceivedBufferWrongSize"]
NotASCIIString == [err |-> "NotASCIIString"]

(***************************************************************************)
(* src/util.rs                                                             *)
(***************************************************************************)
INITIAL == 255
POLYNOMIAL == 49

\* variant: the bit shifted in from is tested at the wrong end
Crc8Shift_tests_low_bit(crc) ==
    IF BitAnd(crc, 1) # 0
    THEN BitXor((crc * 2) % 256, POLYNOMIAL)
    ELSE (crc * 2) % 256

\* variant: the register is shifted but the polynomial never applied
Crc8Shift_without_polynomial(crc) == (crc * 2) % 256

\* one round of the inner `for _ in 0..8` loop
Crc8Shift(crc) ==
    IF BitAnd(crc, 128) # 0
    THEN BitXor((crc * 2) % 256, POLYNOMIAL)
    ELSE (crc * 2) % 256

RECURSIVE Crc8Bits(_, _)
Crc8Bits(crc, n) ==
    IF n = 0 THEN crc
    ELSE CHOOSE out \in {Crc8Bits(shifted, n - 1) : shifted \in {Crc8Shift(crc)}} : TRUE

RECURSIVE Crc8Bytes(_, _, _)
Crc8Bytes(data, i, crc) ==
    IF i > Len(data) THEN crc
    ELSE CHOOSE out \in {Crc8Bytes(data, i + 1, next) :
                          next \in {Crc8Bits(BitXor(crc, data[i]), 8)}} : TRUE

compute_crc8(data) == Crc8Bytes(data, 1, INITIAL)

\* every value the variable `crc` holds while data is processed: the initial
\* one, then per byte the value after `crc ^= byte` and after each of the 8
\* rounds
RECURSIVE Crc8Rounds(_, _)
Crc8Rounds(crc, n) ==
    IF n = 0 THEN <<>>
    ELSE <<Crc8Shift(crc)>> \o Crc8Rounds(Crc8Shift(crc), n - 1)

RECURSIVE Crc8RegistersFrom(_, _, _)
Crc8RegistersFrom(data, i, crc) ==
    IF i > Len(data) THEN <<>>
    ELSE LET rounds == Crc8Rounds(BitXor(crc, data[i]), 8) IN
         <<BitXor(crc, data[i])>> \o rounds \o Crc8RegistersFrom(data, i + 1, rounds[8])

Crc8Registers(data) == <<INITIAL>> \o Crc8RegistersFrom(data, 1, INITIAL)

\* variant: the top bit of the checksum is not compared
crc8_matches_7bit(data, crc) == compute_crc8(data) % 128 = crc % 128

crc8_matches(data, crc) == compute_crc8(data) = crc

\* data.chunks(3): the i-th chunk (0-based), the last one possibly short
Chunk(data, i) ==
    SubSeq(data, 3 * i + 1, IF 3 * i + 3 <= Len(data) THEN 3 * i + 3 ELSE Len(data))

NumChunks(data) == (Len(data) + 2) \div 3

\* `any` stops at the first chunk whose closure returns true; indexing a
\* short chunk panics
RECURSIVE AnyChunkFails(_, _)
AnyChunkFails(data, i) ==
    IF i >= NumChunks(data) THEN "no"
    ELSE IF Len(Chunk(data, i)) < 3 THEN "panic"
    ELSE IF ~crc8_matches(SubSeq(Chunk(data, i), 1, 2), Chunk(data, i)[3]) THEN "yes"
    ELSE AnyChunkFails(data, i + 1)

\* variant: the checksums are tested before the length
check_deserialization_crc_first(data, expected_len) ==
    LET any == AnyChunkFails(data, 0) IN
    IF any = "yes" THEN Err(CrcFailed)
    ELSE IF Len(data) # expected_len THEN Err(ReceivedBufferWrongSize)
    ELSE Ok(<<>>)

check_deserialization(data, expected_len) ==
    IF Len(data) # expected_len THEN Err(ReceivedBufferWrongSize)
    ELSE LET any == AnyChunkFails(data, 0) IN
         IF any = "panic" THEN Panic
         ELSE IF any = "yes" THEN Err(CrcFailed)
         ELSE Ok(<<>>)

\* check_scaling::<T>: checked_mul within [tmin, tmax] of the integer type
\* variant: the product wraps around within the type (wrapping_mul) instead of
\* being refused
check_scaling_wrapping(value, scalar, tmin, tmax, name, unit) ==
    Ok(tmin + ((value * scalar - tmin) % (tmax - tmin + 1)))

check_scaling(value, scalar, tmin, tmax, name, unit) ==
    IF value * scalar >= tmin /\ value * scalar <= tmax
    THEN Ok(value * scalar)
    ELSE Err(ValueOutOfRange(name, 0, tmax \div scalar, unit))

\* variant: the upper limit itself is refused (min..max instead of min..=max)
check_range_exclusive(value, min, max, name, unit) ==
    IF value >= min /\ value < max
    THEN Ok(value)
    ELSE Err(ValueOutOfRange(name, min, max, unit))

check_range(value, min, max, name, unit) ==
    IF value >= min /\ value <= max
    THEN Ok(value)
    ELSE Err(ValueOutOfRange(name, min, max, unit))

\* a u32 is kept as its two 16-bit halves [hi, lo] (value = hi * 65536 + lo)
U32(b0, b1, b2, b3) == [hi |-> b0 * 256 + b1, lo |-> b2 * 256 + b3]

\* value & (1 << bit) != 0
is_set(value, bit) ==
    IF bit < 16 THEN (value.lo \div (2 ^ bit)) % 2 = 1
    ELSE (value.hi \div (2 ^ (bit - 16))) % 2 = 1

(***************************************************************************)
(* src/command.rs                                                          *)
(***************************************************************************)
Command ==
    [StartContinuousMeasurement |-> 33,
     StopMeasurement |-> 260,
     GetDataReady |-> 514,
     ReadMeasurement |-> 768,
     ReadRawMeasurement |-> 1029,
     ReadNumberConcentrationValues |-> 790,
     SetTemperatureOffsetParameters |-> 24754,
     SetTemperatureAccelerationParameters |-> 24832,
     GetProductName |-> 53268,
     GetSerialNumber |-> 53299,
     GetDeviceStatus |-> 53766,
     ReadAndClearDeviceStatus |-> 53776,
     ResetDevice |-> 54020,
     StartFanCleaning |-> 22023,
     ActivateShtHeater |-> 14128,
     SetReadVocTuningParameters |-> 24784,
     SetReadVocAlgorithmState |-> 24961,
     SetReadNoxTuningParameters |-> 24801,
     ForcedRecalibration |-> 26375,
     SetReadCo2AutomaticSelfCalibration |-> 26385,
     SetReadAmbientPreassure |-> 26400,
     SetReadSensorAltitude |-> 26422]

Commands == DOMAIN Command

\* variant: the opcode sent low byte first
command_to_le_bytes(command) == <<Command[command] % 256, Command[command] \div 256>>

\* Command::to_be_bytes
command_to_be_bytes(command) == to_be_bytes(Command[command])

execution_time_ms(command) ==
    CASE command = "StartContinuousMeasurement" -> 50
      [] command = "StopMeasurement" -> 1000
      [] command = "GetDataReady" -> 20
      [] command = "ReadMeasurement" -> 20
      [] command = "ReadRawMeasurement" -> 20
      [] command = "ReadNumberConcentrationValues" -> 20
      [] command = "SetTemperatureOffsetParameters" -> 20
      [] command = "SetTemperatureAccelerationParameters" -> 20
      [] command = "GetProductName" -> 20
      [] command = "GetSerialNumber" -> 20
      [] command = "GetDeviceStatus" -> 20
      [] command = "ReadAndClearDeviceStatus" -> 20
      [] command = "ResetDevice" -> 20
      [] command = "StartFanCleaning" -> 20
      [] command = "ActivateShtHeater" -> 1300
      [] command = "SetReadVocTuningParameters" -> 20
      [] command = "SetReadVocAlgorithmState" -> 20
      [] command = "SetReadNoxTuningParameters" -> 20
      [] command = "ForcedRecalibration" -> 500
      [] command = "SetReadCo2AutomaticSelfCalibration" -> 20
      [] command = "SetReadAmbientPreassure" -> 20
      [] command = "SetReadSensorAltitude" -> 20

(***************************************************************************)
(* src/configuration/mod.rs                                                *)
(***************************************************************************)
\* From<u16> for TargetCO2Concentration / From<TargetCO2Concentration> for u16
TargetCO2Concentration_from(value) == value
TargetCO2Concentration_to_u16(value) == value

Co2Correction_is_valid(self) == self # 65535

\* `value - 0x8000` on u16: with overflow checks the subtraction panics
\* below 0x8000, without them it wraps
Co2Correction_try_from(data, checked) ==
    LET chk == check_deserialization(data, 3) IN
    IF chk.kind # "Ok" THEN chk
    ELSE LET value == u16_from_be_bytes(data[1], data[2]) IN
         IF value # 65535
         THEN IF value < 32768 /\ checked THEN Panic
              ELSE Ok((value - 32768 + 65536) % 65536)
         ELSE Ok(value)

AmbientPressure_try_from_u16(value) ==
    LET r == check_range(value, 700, 1200, "Ambient Pressure", "hPa") IN
    IF r.kind # "Ok" THEN r ELSE Ok(value)

AmbientPressure_try_from(data) ==
    LET chk == check_deserialization(data, 3) IN
    IF chk.kind # "Ok" THEN chk
    ELSE Ok(u16_from_be_bytes(data[1], data[2]))

AmbientPressure_to_u16(value) == value

AmbientPressure_default == 1013

SensorAltitude_try_from_u16(value) ==
    LET r == check_range(value, 0, 3000, "Sensor Altitude", "m") IN
    IF r.kind # "Ok" THEN r ELSE Ok(value)

SensorAltitude_try_from(data) ==
    LET chk == check_deserialization(data, 3) IN
    IF chk.kind # "Ok" THEN chk
    ELSE Ok(u16_from_be_bytes(data[1], data[2]))

SensorAltitude_to_u16(value) == value

SensorAltitude_default == 0

(***************************************************************************)
(* src/configuration/temperature.rs                                        *)
(***************************************************************************)
I16_MIN == -32768
I16_MAX == 32767
U16_MAX == 65535

TemperatureOffset_new(offset, slope, time_constant, slot) ==
    LET o == check_scaling(offset, 200, I16_MIN, I16_MAX, "Temperature Offset", "C")
        s == check_scaling(slope, 10000, I16_MIN, I16_MAX, "Temperature Slope", "")
    IN  IF o.kind # "Ok" THEN o
        ELSE IF s.kind # "Ok" THEN s
        ELSE IF slot >= 0 /\ slot <= 4
             THEN Ok([offset |-> o.value, slope |-> s.value,
                      time_constant |-> time_constant, slot |-> slot])
             ELSE Err(ValueOutOfRange("Temperature Slope", 0, 4, ""))

TemperatureOffset_to_words(value) ==
    <<as_u16(value.offset), as_u16(value.slope), value.time_constant, value.slot>>

TemperatureAcceleration_new(k, p, t1, t2) ==
    LET rk == check_scaling(k, 10, 0, U16_MAX, "Temperature Acceleration K", "")
        rp == check_scaling(p, 10, 0, U16_MAX, "Temperature Acceleration P", "")
        r1 == check_scaling(t1, 10, 0, U16_MAX, "Temperature Acceleration T1", "")
        r2 == check_scaling(t2, 10, 0, U16_MAX, "Temperature Acceleration T2", "")
    IN  IF rk.kind # "Ok" THEN rk
        ELSE IF rp.kind # "Ok" THEN rp
        ELSE IF r1.kind # "Ok" THEN r1
        ELSE IF r2.kind # "Ok" THEN r2
        ELSE Ok([k |-> rk.value, p |-> rp.value, t1 |-> r1.value, t2 |-> r2.value])

TemperatureAcceleration_to_words(value) == <<value.k, value.p, value.t1, value.t2>>

(***************************************************************************)
(* src/configuration/tuning.rs                                             *)
(***************************************************************************)
\* variant: the gain factor is stored without its range check
Tuning_new_gain_unchecked(index_offset, learning_time_offset, learning_time_gain, gating_max_durations, initial_standard_deviation, gain_factor) ==
    LET r1 == check_range(index_offset, 1, 250, "VOC Index Offset", "")
        r2 == check_range(learning_time_offset, 1, 1000, "VOC Learning Time Offset", "h")
        r3 == check_range(learning_time_gain, 1, 1000, "VOC Learning Time Gain", "h")
        r4 == check_range(gating_max_durations, 0, 3000, "VOC Gating Max Duration", "min")
        r5 == check_range(initial_standard_deviation, 10, 5000,
                          "VOC Initial Standard Deviation", "")
    IN  IF r1.kind # "Ok" THEN r1
        ELSE IF r2.kind # "Ok" THEN r2
        ELSE IF r3.kind # "Ok" THEN r3
        ELSE IF r4.kind # "Ok" THEN r4
        ELSE IF r5.kind # "Ok" THEN r5
        ELSE Ok([index_offset |-> r1.value,
                 learning_time_offset |-> r2.value,
                 learning_time_gain |-> r3.value,
                 gating_max_durations |-> r4.value,
                 initial_standard_deviation |-> r5.value,
                 gain_factor |-> gain_factor])

Tuning_new(index_offset, learning_time_offset, learning_time_gain, gating_max_durations, initial_standard_deviation, gain_factor) ==
    LET r1 == check_range(index_offset, 1, 250, "VOC Index Offset", "")
        r2 == check_range(learning_time_offset, 1, 1000, "VOC Learning Time Offset", "h")
        r3 == check_range(learning_time_gain, 1, 1000, "VOC Learning Time Gain", "h")
        r4 == check_range(gating_max_durations, 0, 3000, "VOC Gating Max Duration", "min")
        r5 == check_range(initial_standard_deviation, 10, 5000,
                          "VOC Initial Standard Deviation", "")
        r6 == check_range(gain_factor, 1, 1000, "VOC Gain Factor", "")
    IN  IF r1.kind # "Ok" THEN r1
        ELSE IF r2.kind # "Ok" THEN r2
        ELSE IF r3.kind # "Ok" THEN r3
        ELSE IF r4.kind # "Ok" THEN r4
        ELSE IF r5.kind # "Ok" THEN r5
        ELSE IF r6.kind # "Ok" THEN r6
        ELSE Ok([index_offset |-> r1.value,
                 learning_time_offset |-> r2.value,
                 learning_time_gain |-> r3.value,
                 gating_max_durations |-> r4.value,
                 initial_standard_deviation |-> r5.value,
                 gain_factor |-> r6.value])

\* variant: the two learning times are written in the opposite order
Tuning_to_words_gain_first(value) ==
    <<as_u16(value.index_offset), as_u16(value.learning_time_gain),
      as_u16(value.learning_time_offset), as_u16(value.gating_max_durations),
      as_u16(value.initial_standard_deviation), as_u16(value.gain_factor)>>

Tuning_to_words(value) ==
    <<as_u16(value.index_offset), as_u16(value.learning_time_offset),
      as_u16(value.learning_time_gain), as_u16(value.gating_max_durations),
      as_u16(value.initial_standard_deviation), as_u16(value.gain_factor)>>

Tuning_try_from(data) ==
    LET chk == check_deserialization(data, 18) IN
    IF chk.kind # "Ok" THEN chk
    ELSE Tuning_new(i16_from_be_bytes(data[1], data[2]),
                    i16_from_be_bytes(data[4], data[5]),
                    i16_from_be_bytes(data[7], data[8]),
                    i16_from_be_bytes(data[10], data[11]),
                    i16_from_be_bytes(data[13], data[14]),
                    i16_from_be_bytes(data[16], data[17]))

VocTuning_new(index_offset, learning_time_offset, learning_time_gain, gating_max_durations, initial_standard_deviation, gain_factor) ==
    Tuning_new(index_offset, learning_time_offset, learning_time_gain,
               gating_max_durations, initial_standard_deviation, gain_factor)

VocTuning_to_words(value) == Tuning_to_words(value)

VocTuning_try_from(data) == Tuning_try_from(data)

VocTuning_default ==
    [index_offset |-> 100, learning_time_offset |-> 12, learning_time_gain |-> 12,
     gating_max_durations |-> 180, initial_standard_deviation |-> 50,
     gain_factor |-> 230]

NoxTuning_new(index_offset, learning_time_offset, learning_time_gain, gating_max_durations, gain_factor) ==
    Tuning_new(index_offset, learning_time_offset, learning_time_gain,
               gating_max_durations, 50, gain_factor)

NoxTuning_to_words(value) == Tuning_to_words(value)

NoxTuning_try_from(data) == Tuning_try_from(data)

NoxTuning_default ==
    [index_offset |-> 100, learning_time_offset |-> 12, learning_time_gain |-> 12,
     gating_max_durations |-> 180, initial_standard_deviation |-> 50,
     gain_factor |-> 230]

(***************************************************************************)
(* src/data/data_status.rs, src/data/state.rs                              *)
(***************************************************************************)
DataStatus_try_from(data) ==
    LET chk == check_deserialization(data, 3) IN
    IF chk.kind # "Ok" THEN chk
    ELSE IF data[2] = 0 THEN Ok("NotReady")
    ELSE IF data[2] = 1 THEN Ok("Ready")
    ELSE Err(UnexpectedValueReceived("Data ready status", "0 or 1", data[2]))

AscState_try_from(data) ==
    LET chk == check_deserialization(data, 3) IN
    IF chk.kind # "Ok" THEN chk
    ELSE IF data[2] = 0 THEN Ok("Disabled")
    ELSE IF data[2] = 1 THEN Ok("Enabled")
    ELSE Err(UnexpectedValueReceived("ASC State", "0 or 1", data[2]))

AscState_to_u16(value) == IF value = "Enabled" THEN 1 ELSE 0

\* u32::from_be_bytes([data[0], data[1], data[3], data[4]])
\* variant: four consecutive bytes are taken, the first checksum among them
DeviceStatusRegister_try_from_consecutive(data) ==
    LET chk == check_deserialization(data, 6) IN
    IF chk.kind # "Ok" THEN chk
    ELSE Ok(U32(data[1], data[2], data[3], data[4]))

DeviceStatusRegister_try_from(data) ==
    LET chk == check_deserialization(data, 6) IN
    IF chk.kind # "Ok" THEN chk
    ELSE Ok(U32(data[1], data[2], data[4], data[5]))

fan_speed_warning(self) == is_set(self, 21)
pm_sensor_error(self) == is_set(self, 11)
co2_sensor_error(self) == is_set(self, 9)
gas_sensor_error(self) == is_set(self, 7)
rht_sensor_error(self) == is_set(self, 6)
fan_error(self) == is_set(self, 4)

\* variant: the fan speed warning counts as an error
has_error_with_warning(self) ==
    LET pm == pm_sensor_error(self)
        co2 == co2_sensor_error(self)
        gas == gas_sensor_error(self)
        rht == rht_sensor_error(self)
        fan == fan_error(self)
    IN  IF pm \/ co2 \/ gas \/ rht \/ fan \/ fan_speed_warning(self)
        THEN Err([pm |-> pm, co2 |-> co2, gas |-> gas, rht |-> rht, fan |-> fan])
        ELSE Ok(<<>>)

has_error(self) ==
    LET pm == pm_sensor_error(self)
        co2 == co2_sensor_error(self)
        gas == gas_sensor_error(self)
        rht == rht_sensor_error(self)
        fan == fan_error(self)
    IN  IF pm \/ co2 \/ gas \/ rht \/ fan
        THEN Err([pm |-> pm, co2 |-> co2, gas |-> gas, rht |-> rht, fan |-> fan])
        ELSE Ok(<<>>)

VocAlgorithmState_try_from(data) ==
    LET chk == check_deserialization(data, 12) IN
    IF chk.kind # "Ok" THEN chk
    ELSE Ok(<<data[1], data[2], data[4], data[5], data[7], data[8], data[10], data[11]>>)

VocAlgorithmState_to_words(value) ==
    <<u16_from_be_bytes(value[1], value[2]), u16_from_be_bytes(value[3], value[4]),
      u16_from_be_bytes(value[5], value[6]), u16_from_be_bytes(value[7], value[8])>>

(***************************************************************************)
(* src/data/measurement.rs: an f32 quotient is kept as numerator and       *)
(* divisor                                                                 *)
(***************************************************************************)
Scaled(num, den) == [num |-> num, den |-> den]

Measurement_try_from(data) ==
    LET chk == check_deserialization(data, 27) IN
    IF chk.kind # "Ok" THEN chk
    ELSE Ok([pm1_0 |-> Scaled(u16_from_be_bytes(data[1], data[2]), 10),
             pm2_5 |-> Scaled(u16_from_be_bytes(data[4], data[5]), 10),
             pm4_0 |-> Scaled(u16_from_be_bytes(data[7], data[8]), 10),
             pm10_0 |-> Scaled(u16_from_be_bytes(data[10], data[11]), 10),
             relative_humidity |-> Scaled(i16_from_be_bytes(data[13], data[14]), 100),
             temperature |-> Scaled(i16_from_be_bytes(data[16], data[17]), 200),
             voc_index |-> Scaled(i16_from_be_bytes(data[19], data[20]), 10),
             nox_index |-> Scaled(i16_from_be_bytes(data[22], data[23]), 10),
             co2 |-> u16_from_be_bytes(data[25], data[26])])

RawMeasurement_try_from(data) ==
    LET chk == check_deserialization(data, 15) IN
    IF chk.kind # "Ok" THEN chk
    ELSE Ok([relative_humidity |-> Scaled(i16_from_be_bytes(data[1], data[2]), 100),
             temperature |-> Scaled(i16_from_be_bytes(data[4], data[5]), 200),
             voc |-> u16_from_be_bytes(data[7], data[8]),
             nox |-> u16_from_be_bytes(data[10], data[11]),
             co2 |-> u16_from_be_bytes(data[13], data[14])])

Concentrations_try_from(data) ==
    LET chk == check_deserialization(data, 15) IN
    IF chk.kind # "Ok" THEN chk
    ELSE Ok([pm0_5 |-> Scaled(u16_from_be_bytes(data[1], data[2]), 10),
             pm1_0 |-> Scaled(u16_from_be_bytes(data[4], data[5]), 10),
             pm2_5 |-> Scaled(u16_from_be_bytes(data[7], data[8]), 10),
             pm4_0 |-> Scaled(u16_from_be_bytes(data[10], data[11]), 10),
             pm10_0 |-> Scaled(u16_from_be_bytes(data[13], data[14]), 10)])

(***************************************************************************)
(* src/data/product_data.rs                                                *)
(***************************************************************************)
NAME_CAPACITY == 32

\* variant: the loop stops at the null terminator before storing it
RECURSIVE SmallStringLoop_drops_terminator(_, _, _)
SmallStringLoop_drops_terminator(data, i, name) ==
    IF i >= Len(data)
    THEN Ok([name |-> name \o [j \in 1..(NAME_CAPACITY - Len(name)) |-> 0],
             len |-> Len(name)])
    ELSE IF (i + 1) % 3 = 0 THEN SmallStringLoop_drops_terminator(data, i + 1, name)
    ELSE LET c == data[i + 1] IN
         IF c >= 128 THEN Err(NotASCIIString)
         ELSE IF c = 0
              THEN Ok([name |-> name \o [j \in 1..(NAME_CAPACITY - Len(name)) |-> 0],
                       len |-> Len(name)])
              ELSE SmallStringLoop_drops_terminator(data, i + 1, Append(name, c))

\* variant: the ASCII test comes before the checksum bytes are skipped
RECURSIVE SmallStringLoop_tests_checksums(_, _, _)
SmallStringLoop_tests_checksums(data, i, name) ==
    IF i >= Len(data)
    THEN Ok([name |-> name \o [j \in 1..(NAME_CAPACITY - Len(name)) |-> 0],
             len |-> Len(name)])
    ELSE LET c == data[i + 1] IN
         IF c >= 128 THEN Err(NotASCIIString)
         ELSE IF (i + 1) % 3 = 0
              THEN SmallStringLoop_tests_checksums(data, i + 1, name)
         ELSE IF Len(name) >= NAME_CAPACITY THEN Panic
         ELSE IF c = 0
              THEN Ok([name |-> Append(name, c)
                                  \o [j \in 1..(NAME_CAPACITY - Len(name) - 1) |-> 0],
                       len |-> Len(name) + 1])
              ELSE SmallStringLoop_tests_checksums(data, i + 1, Append(name, c))

\* the `for (i, &c) in data.iter().enumerate()` loop; i is 0-based, name holds
\* the bytes stored so far (name[0..len])
RECURSIVE SmallStringLoop(_, _, _)
SmallStringLoop(data, i, name) ==
    IF i >= Len(data)
    THEN Ok([name |-> name \o [j \in 1..(NAME_CAPACITY - Len(name)) |-> 0],
             len |-> Len(name)])
    ELSE IF (i + 1) % 3 = 0 THEN SmallStringLoop(data, i + 1, name)
    ELSE LET c == data[i + 1] IN
         IF c >= 128 THEN Err(NotASCIIString)
         ELSE IF Len(name) >= NAME_CAPACITY THEN Panic
         ELSE IF c = 0
              THEN Ok([name |-> Append(name, c)
                                  \o [j \in 1..(NAME_CAPACITY - Len(name) - 1) |-> 0],
                       len |-> Len(name) + 1])
              ELSE SmallStringLoop(data, i + 1, Append(name, c))

SmallString_try_from(data) ==
    LET chk == check_deserialization(data, 48) IN
    IF chk.kind # "Ok" THEN chk
    ELSE SmallStringLoop(data, 0, <<>>)

get_buffer(self) == SubSeq(self.name, 1, self.len)

ProductName_try_from(value) == SmallString_try_from(value)

SerialNumber_try_from(value) == SmallString_try_from(value)

(***************************************************************************)
(* Inputs of the model: the replies the transport may put into the read    *)
(* buffer and the parameter values a caller may pass.                      *)
(***************************************************************************)
\* bytes 1..MaxCorruptIndex of a reply may arrive with their lowest bit flipped
MaxCorruptIndex == 3

\* 0x0000 0x0001 100 "SE" 0x83E8 0xFFFF
ReplyWords == {0, 1, 100, 21317, 33768, 65535}

\* the wire format of the sensor: per word high byte, low byte, checksum
RECURSIVE SensorFrame(_)
SensorFrame(words) ==
    IF words = <<>> THEN <<>>
    ELSE to_be_bytes(Head(words)) \o <<compute_crc8(to_be_bytes(Head(words)))>>
         \o SensorFrame(Tail(words))

FlipLowBit(data, i) ==
    IF i = 0 \/ i > Len(data) THEN data
    ELSE [data EXCEPT ![i] = BitXor(data[i], 1)]

\* a reply of n bytes: a first word, the remaining words all equal to it or all
\* zero, correctly framed, then at most one byte corrupted
Replies(n) ==
    UNION { { FlipLowBit(SensorFrame([i \in 1..(n \div 3) |-> IF i = 1 THEN w1 ELSE w2])
                           \o [j \in 1..(n % 3) |-> 0], c) :
                w2 \in {w1, 0}, c \in 0..MaxCorruptIndex } : w1 \in ReplyWords }

OkValues(S) == { r.value : r \in { x \in S : x.kind = "Ok" } }

TemperatureOffsets ==
    OkValues({ TemperatureOffset_new(o, sl, 10, slot) :
                 o \in {-1, 100}, sl \in {0, 3}, slot \in {0, 4} })

TemperatureAccelerations ==
    OkValues({ TemperatureAcceleration_new(k, 2, 3, t2) : k \in {1, 6553}, t2 \in {0, 4} })

VocTunings ==
    {VocTuning_default} \cup
    OkValues({ VocTuning_new(i, 1, 1000, g, 10, 1000) : i \in {1, 250}, g \in {0, 3000} })

NoxTunings ==
    {NoxTuning_default} \cup
    OkValues({ NoxTuning_new(i, 1, 1000, g, 1) : i \in {1, 250}, g \in {0, 3000} })

VocAlgorithmStates ==
    OkValues({ VocAlgorithmState_try_from(SensorFrame(ws)) :
                 ws \in {<<258, 772, 1286, 1800>>, <<0, 255, 65280, 65535>>} })

TargetCO2Concentrations == { TargetCO2Concentration_from(v) : v \in {0, 400, 65535} }

AscStates == {"Enabled", "Disabled"}

AmbientPressures ==
    {AmbientPressure_default} \cup
    OkValues({ AmbientPressure_try_from_u16(v) : v \in {699, 700, 1200, 1201} })

SensorAltitudes ==
    {SensorAltitude_default} \cup
    OkValues({ SensorAltitude_try_from_u16(v) : v \in {0, 3000, 3001} })

(***************************************************************************)
(* src/interface.rs                                                        *)
(***************************************************************************)
ADDRESS == 107
WRITE_FLAG == 0
READ_FLAG == 1

WrongState(name) == [kind |-> "WrongState", value |-> name]
I2cError == [kind |-> "I2cError", value |-> "ERR"]
DataError(e) == [kind |-> "DataError", value |-> e]
FailedCo2Recalibration == [kind |-> "FailedCo2Recalibration", value |-> <<>>]
Pending == [kind |-> "Pending", value |-> <<>>]

\* requests seen by the transport and the delay provider; ok is the outcome
\* the transport reported
WriteEv(address, bytes, ok) ==
    [kind |-> "write", address |-> address, bytes |-> bytes, n |-> Len(bytes), ok |-> ok]
DelayEv(ms) ==
    [kind |-> "delay", address |-> 0, bytes |-> <<>>, n |-> ms, ok |-> TRUE]
ReadEv(address, n, ok) ==
    [kind |-> "read", address |-> address, bytes |-> <<>>, n |-> n, ok |-> ok]

NoCall ==
    [op |-> "none", outer |-> "none", helper |-> "none", tx |-> 0, rx |-> 0,
     command |-> "none", data |-> <<>>]

\* Sen66::new
Init ==
    /\ state = "Idle"
    /\ owner = "driver"
    /\ pc = "ready"
    /\ cur = NoCall
    /\ log = <<>>
    /\ received = <<>>
    /\ result = Pending
    /\ overflow_checks \in BOOLEAN

\* a public operation can be entered when the instance exists and no call of
\* it is in flight (&mut self)
CanCall == owner = "driver" /\ pc = "ready"

\* variant: the error names the state the operation requires
Reject_names_required(op, name) ==
    /\ cur' = [NoCall EXCEPT !.op = op]
    /\ result' = WrongState(IF name = "Idle" THEN "Measuring" ELSE "Idle")
    /\ log' = <<>>
    /\ received' = <<>>
    /\ UNCHANGED <<state, owner, pc, overflow_checks>>

\* `return Err(Sen66Error::WrongState(name))` before any bus traffic
Reject(op, name) ==
    /\ cur' = [NoCall EXCEPT !.op = op]
    /\ result' = WrongState(name)
    /\ log' = <<>>
    /\ received' = <<>>
    /\ UNCHANGED <<state, owner, pc, overflow_checks>>

\* entry into self.write::<TX>(command, data) / self.write_read::<TX, RX>(..)
Issue(op, outer, helper, tx, rx, command, data) ==
    /\ cur' = [op |-> op, outer |-> outer, helper |-> helper, tx |-> tx, rx |-> rx,
               command |-> command, data |-> data]
    /\ result' = Pending
    /\ log' = <<>>
    /\ received' = <<>>
    /\ pc' = "write"
    /\ UNCHANGED <<state, owner, overflow_checks>>

\* variant: the state is committed before the write has been awaited
start_measurement_commits_first ==
    /\ CanCall
    /\ IF state # "Idle"
       THEN Reject("start_measurement", "Measuring")
       ELSE /\ cur' = [op |-> "start_measurement", outer |-> "none", helper |-> "write",
                       tx |-> 2, rx |-> 0, command |-> "StartContinuousMeasurement",
                       data |-> <<>>]
            /\ state' = "Measuring"
            /\ result' = Pending
            /\ log' = <<>>
            /\ received' = <<>>
            /\ pc' = "write"
            /\ UNCHANGED <<owner, overflow_checks>>

start_measurement ==
    /\ CanCall
    /\ IF state # "Idle"
       THEN Reject("start_measurement", "Measuring")
       ELSE Issue("start_measurement", "none", "write", 2, 0, "StartContinuousMeasurement", <<>>)

\* the body of stop_measurement, entered directly or from shutdown (whose `?`
\* drops the consumed instance on an error)
stop_measurement_from(outer) ==
    IF state # "Measuring"
    THEN /\ cur' = [NoCall EXCEPT !.op = "stop_measurement", !.outer = outer]
         /\ result' = WrongState("Idle")
         /\ log' = <<>>
         /\ received' = <<>>
         /\ owner' = IF outer = "shutdown" THEN "dropped" ELSE owner
         /\ UNCHANGED <<state, pc, overflow_checks>>
    ELSE Issue("stop_measurement", outer, "write", 2, 0, "StopMeasurement", <<>>)

stop_measurement ==
    /\ CanCall
    /\ stop_measurement_from("none")

\* variant: only the two data bytes of the reply are requested
is_data_ready_short_read ==
    /\ CanCall
    /\ IF state # "Measuring"
       THEN Reject("is_data_ready", "Idle")
       ELSE Issue("is_data_ready", "none", "write_read", 2, 2, "GetDataReady", <<>>)

is_data_ready ==
    /\ CanCall
    /\ IF state # "Measuring"
       THEN Reject("is_data_ready", "Idle")
       ELSE Issue("is_data_ready", "none", "write_read", 2, 3, "GetDataReady", <<>>)

read_measured_values ==
    /\ CanCall
    /\ IF state # "Measuring"
       THEN Reject("read_measured_values", "Idle")
       ELSE Issue("read_measured_values", "none", "write_read", 2, 27, "ReadMeasurement", <<>>)

read_measured_raw_values ==
    /\ CanCall
    /\ IF state # "Measuring"
       THEN Reject("read_measured_raw_values", "Idle")
       ELSE Issue("read_measured_raw_values", "none", "write_read", 2, 15, "ReadRawMeasurement", <<>>)

read_number_concentrations ==
    /\ CanCall
    /\ IF state # "Measuring"
       THEN Reject("read_number_concentrations", "Idle")
       ELSE Issue("read_number_concentrations", "none", "write_read", 2, 15, "ReadNumberConcentrationValues", <<>>)

set_temperature_offset ==
    /\ CanCall
    /\ \E parameter \in TemperatureOffsets :
         Issue("set_temperature_offset", "none", "write", 14, 0, "SetTemperatureOffsetParameters", TemperatureOffset_to_words(parameter))

set_temperature_acceleration ==
    /\ CanCall
    /\ \E parameter \in TemperatureAccelerations :
         IF state # "Idle"
         THEN Reject("set_temperature_acceleration", "Measuring")
         ELSE Issue("set_temperature_acceleration", "none", "write", 14, 0, "SetTemperatureAccelerationParameters", TemperatureAcceleration_to_words(parameter))

get_product_name ==
    /\ CanCall
    /\ Issue("get_product_name", "none", "write_read", 2, 48, "GetProductName", <<>>)

get_serial_number ==
    /\ CanCall
    /\ Issue("get_serial_number", "none", "write_read", 2, 48, "GetSerialNumber", <<>>)

read_device_status ==
    /\ CanCall
    /\ Issue("read_device_status", "none", "write_read", 2, 6, "GetDeviceStatus", <<>>)

read_and_clear_device_status ==
    /\ CanCall
    /\ Issue("read_and_clear_device_status", "none", "write_read", 2, 6, "ReadAndClearDeviceStatus", <<>>)

\* variant: the state check is missing
reset_device_ungated ==
    /\ CanCall
    /\ Issue("reset_device", "none", "write", 2, 0, "ResetDevice", <<>>)

reset_device ==
    /\ CanCall
    /\ IF state # "Idle"
       THEN Reject("reset_device", "Measuring")
       ELSE Issue("reset_device", "none", "write", 2, 0, "ResetDevice", <<>>)

start_fan_cleaning ==
    /\ CanCall
    /\ IF state # "Idle"
       THEN Reject("start_fan_cleaning", "Measuring")
       ELSE Issue("start_fan_cleaning", "none", "write", 2, 0, "StartFanCleaning", <<>>)

activate_sht_heater ==
    /\ CanCall
    /\ IF state # "Idle"
       THEN Reject("activate_sht_heater", "Measuring")
       ELSE Issue("activate_sht_heater", "none", "write", 2, 0, "ActivateShtHeater", <<>>)

get_voc_tuning_parameters ==
    /\ CanCall
    /\ IF state # "Idle"
       THEN Reject("get_voc_tuning_parameters", "Measuring")
       ELSE Issue("get_voc_tuning_parameters", "none", "write_read", 2, 18, "SetReadVocTuningParameters", <<>>)

set_voc_tuning_parameters ==
    /\ CanCall
    /\ \E parameter \in VocTunings :
         IF state # "Idle"
         THEN Reject("set_voc_tuning_parameters", "Measuring")
         ELSE Issue("set_voc_tuning_parameters", "none", "write", 20, 0, "SetReadVocTuningParameters", VocTuning_to_words(parameter))

get_voc_algorithm_state ==
    /\ CanCall
    /\ Issue("get_voc_algorithm_state", "none", "write_read", 2, 12, "SetReadVocAlgorithmState", <<>>)

\* variant: the state check is missing
set_voc_algorithm_state_ungated ==
    /\ CanCall
    /\ \E parameter \in VocAlgorithmStates :
         Issue("set_voc_algorithm_state", "none", "write", 14, 0, "SetReadVocAlgorithmState", VocAlgorithmState_to_words(parameter))

set_voc_algorithm_state ==
    /\ CanCall
    /\ \E parameter \in VocAlgorithmStates :
         IF state # "Idle"
         THEN Reject("set_voc_algorithm_state", "Measuring")
         ELSE Issue("set_voc_algorithm_state", "none", "write", 14, 0, "SetReadVocAlgorithmState", VocAlgorithmState_to_words(parameter))

get_nox_tuning_parameters ==
    /\ CanCall
    /\ IF state # "Idle"
       THEN Reject("get_nox_tuning_parameters", "Measuring")
       ELSE Issue("get_nox_tuning_parameters", "none", "write_read", 2, 18, "SetReadNoxTuningParameters", <<>>)

set_nox_tuning_parameters ==
    /\ CanCall
    /\ \E parameter \in NoxTunings :
         IF state # "Idle"
         THEN Reject("set_nox_tuning_parameters", "Measuring")
         ELSE Issue("set_nox_tuning_parameters", "none", "write", 20, 0, "SetReadNoxTuningParameters", NoxTuning_to_words(parameter))

perform_forced_co2_recalibration ==
    /\ CanCall
    /\ \E parameter \in TargetCO2Concentrations :
         IF state # "Idle"
         THEN Reject("perform_forced_co2_recalibration", "Measuring")
         ELSE Issue("perform_forced_co2_recalibration", "none", "write_read", 5, 3, "ForcedRecalibration", <<TargetCO2Concentration_to_u16(parameter)>>)

get_co2_asc_state ==
    /\ CanCall
    /\ IF state # "Idle"
       THEN Reject("get_co2_asc_state", "Measuring")
       ELSE Issue("get_co2_asc_state", "none", "write_read", 2, 3, "SetReadCo2AutomaticSelfCalibration", <<>>)

set_co2_asc_state ==
    /\ CanCall
    /\ \E parameter \in AscStates :
         IF state # "Idle"
         THEN Reject("set_co2_asc_state", "Measuring")
         ELSE Issue("set_co2_asc_state", "none", "write", 5, 0, "SetReadCo2AutomaticSelfCalibration", <<AscState_to_u16(parameter)>>)

get_ambient_pressure ==
    /\ CanCall
    /\ Issue("get_ambient_pressure", "none", "write_read", 2, 3, "SetReadAmbientPreassure", <<>>)

set_ambient_pressure ==
    /\ CanCall
    /\ \E parameter \in AmbientPressures :
         Issue("set_ambient_pressure", "none", "write", 5, 0, "SetReadAmbientPreassure", <<AmbientPressure_to_u16(parameter)>>)

get_sensor_altitude ==
    /\ CanCall
    /\ IF state # "Idle"
       THEN Reject("get_sensor_altitude", "Measuring")
       ELSE Issue("get_sensor_altitude", "none", "write_read", 2, 3, "SetReadSensorAltitude", <<>>)

set_sensor_altitude ==
    /\ CanCall
    /\ \E parameter \in SensorAltitudes :
         IF state # "Idle"
         THEN Reject("set_sensor_altitude", "Measuring")
         ELSE Issue("set_sensor_altitude", "none", "write", 5, 0, "SetReadSensorAltitude", <<SensorAltitude_to_u16(parameter)>>)

\* variant: the peripherals are handed back without stopping the measurement
shutdown_without_stop ==
    /\ CanCall
    /\ cur' = [NoCall EXCEPT !.op = "shutdown", !.outer = "shutdown"]
    /\ result' = Ok("peripherals")
    /\ owner' = "caller"
    /\ log' = <<>>
    /\ received' = <<>>
    /\ UNCHANGED <<state, pc, overflow_checks>>

\* shutdown(mut self): the instance is consumed whatever the outcome
shutdown ==
    /\ CanCall
    /\ IF state = "Measuring"
       THEN stop_measurement_from("shutdown")
       ELSE /\ cur' = [NoCall EXCEPT !.op = "shutdown", !.outer = "shutdown"]
            /\ result' = Ok("peripherals")
            /\ owner' = "caller"
            /\ log' = <<>>
            /\ received' = <<>>
            /\ UNCHANGED <<state, pc, overflow_checks>>

\* variant: like shutdown, a running measurement is stopped first
kill_stops_first ==
    /\ CanCall
    /\ IF state = "Measuring"
       THEN Issue("kill", "none", "write", 2, 0, "StopMeasurement", <<>>)
       ELSE /\ cur' = [NoCall EXCEPT !.op = "kill"]
            /\ result' = [kind |-> "Returned", value |-> "peripherals"]
            /\ owner' = "caller"
            /\ log' = <<>>
            /\ received' = <<>>
            /\ UNCHANGED <<state, pc, overflow_checks>>

\* kill(self): (self.delay, self.i2c), no Result
kill ==
    /\ CanCall
    /\ cur' = [NoCall EXCEPT !.op = "kill"]
    /\ result' = [kind |-> "Returned", value |-> "peripherals"]
    /\ owner' = "caller"
    /\ log' = <<>>
    /\ received' = <<>>
    /\ UNCHANGED <<state, pc, overflow_checks>>

\* Sen66::new on the peripherals of a released or dropped instance
new ==
    /\ owner # "driver"
    /\ state' = "Idle"
    /\ owner' = "driver"
    /\ pc' = "ready"
    /\ cur' = NoCall
    /\ log' = <<>>
    /\ received' = <<>>
    /\ result' = Pending
    /\ UNCHANGED overflow_checks

\* variant: the two bytes of a word are laid out low byte first
RECURSIVE FrameWords_low_byte_first(_)
FrameWords_low_byte_first(data) ==
    IF data = <<>> THEN <<>>
    ELSE LET bytes == to_be_bytes(Head(data)) IN
         <<bytes[2], bytes[1], compute_crc8(bytes)>> \o FrameWords_low_byte_first(Tail(data))

\* the bytes of data words as write() lays them out: high, low, crc per word
RECURSIVE FrameWords(_)
FrameWords(data) ==
    IF data = <<>> THEN <<>>
    ELSE LET bytes == to_be_bytes(Head(data)) IN
         <<bytes[1], bytes[2], compute_crc8(bytes)>> \o FrameWords(Tail(data))

\* variant: the opcode is given a checksum byte like a data word
Sent_opcode_checksummed(tx, command, data) ==
    [panic |-> FALSE,
     bytes |-> command_to_be_bytes(command) \o <<compute_crc8(command_to_be_bytes(command))>>
               \o FrameWords(data)]

\* write::<TX_SIZE>: the slice &sent[..len] handed to the transport, or a
\* panic when an index runs past the TX_SIZE bytes of `sent`
Sent(tx, command, data) ==
    LET len == 2 + Len(data) * 3
        filled == command_to_be_bytes(command) \o FrameWords(data)
        sent == [i \in 1..tx |-> IF i <= len THEN filled[i] ELSE 0]
    IN  IF len > tx THEN [panic |-> TRUE, bytes |-> <<>>]
        ELSE [panic |-> FALSE, bytes |-> SubSeq(sent, 1, len)]

\* variant: an error also puts the driver back to Idle
Abort_resets_state(e) ==
    /\ result' = e
    /\ pc' = "ready"
    /\ state' = "Idle"
    /\ owner' = IF cur.outer = "shutdown" THEN "dropped" ELSE owner
    /\ UNCHANGED <<cur, received, overflow_checks>>

\* variant: shutdown takes &mut self, the instance survives its failure
Abort_keeps_instance(e) ==
    /\ result' = e
    /\ pc' = "ready"
    /\ UNCHANGED <<state, owner, cur, received, overflow_checks>>

\* an error leaves the call through `?`; inside shutdown the instance is gone
Abort(e) ==
    /\ result' = e
    /\ pc' = "ready"
    /\ owner' = IF cur.outer = "shutdown" THEN "dropped" ELSE owner
    /\ UNCHANGED <<state, cur, received, overflow_checks>>

\* variant: the outcome of the write is ignored (no `?`)
I2cWrite_ignores_error ==
    /\ pc = "write"
    /\ \E ok \in BOOLEAN :
         /\ log' = Append(log, WriteEv(BitOr(ADDRESS, WRITE_FLAG),
                                       Sent(cur.tx, cur.command, cur.data).bytes, ok))
         /\ pc' = "delay"
         /\ UNCHANGED <<state, owner, cur, received, result, overflow_checks>>

\* variant: a failed write is tried once more before the error is returned
I2cWrite_retries ==
    /\ pc = "write"
    /\ LET sent == Sent(cur.tx, cur.command, cur.data) IN
       IF sent.panic
       THEN /\ log' = log
            /\ Abort(Panic)
       ELSE \E ok \in BOOLEAN :
              /\ log' = Append(log, WriteEv(BitOr(ADDRESS, WRITE_FLAG), sent.bytes, ok))
              /\ IF ok
                 THEN /\ pc' = "delay"
                      /\ UNCHANGED <<state, owner, cur, received, result, overflow_checks>>
                 ELSE IF log = <<>>
                      THEN UNCHANGED <<state, owner, pc, cur, received, result,
                                       overflow_checks>>
                      ELSE Abort(I2cError)

\* self.i2c.write(ADDRESS | WRITE_FLAG, &sent[..len]).await?
I2cWrite ==
    /\ pc = "write"
    /\ LET sent == Sent(cur.tx, cur.command, cur.data) IN
       IF sent.panic
       THEN /\ log' = log
            /\ Abort(Panic)
       ELSE \E ok \in BOOLEAN :
              /\ log' = Append(log, WriteEv(BitOr(ADDRESS, WRITE_FLAG), sent.bytes, ok))
              /\ IF ok
                 THEN /\ pc' = "delay"
                      /\ UNCHANGED <<state, owner, cur, received, result, overflow_checks>>
                 ELSE Abort(I2cError)

\* variant: every command is given the default 20 ms
DelayMs_fixed ==
    /\ pc = "delay"
    /\ log' = Append(log, DelayEv(20))
    /\ pc' = IF cur.helper = "write_read" THEN "read" ELSE "tail"
    /\ UNCHANGED <<state, owner, cur, received, result, overflow_checks>>

\* self.delay.delay_ms(command.execution_time_ms()).await
DelayMs ==
    /\ pc = "delay"
    /\ log' = Append(log, DelayEv(execution_time_ms(cur.command)))
    /\ pc' = IF cur.helper = "write_read" THEN "read" ELSE "tail"
    /\ UNCHANGED <<state, owner, cur, received, result, overflow_checks>>

\* variant: the outcome of the read is ignored and the zeroed buffer parsed
I2cRead_ignores_error ==
    /\ pc = "read"
    /\ \E ok \in BOOLEAN :
         /\ log' = Append(log, ReadEv(BitOr(ADDRESS, READ_FLAG), cur.rx, ok))
         /\ IF ok
            THEN \E reply \in Replies(cur.rx) : received' = reply
            ELSE received' = [i \in 1..cur.rx |-> 0]
         /\ pc' = "tail"
         /\ UNCHANGED <<state, owner, cur, result, overflow_checks>>

\* self.i2c.read(ADDRESS | READ_FLAG, &mut received).await?
I2cRead ==
    /\ pc = "read"
    /\ \E ok \in BOOLEAN :
         /\ log' = Append(log, ReadEv(BitOr(ADDRESS, READ_FLAG), cur.rx, ok))
         /\ IF ok
            THEN /\ \E reply \in Replies(cur.rx) : received' = reply
                 /\ pc' = "tail"
                 /\ UNCHANGED <<state, owner, cur, result, overflow_checks>>
            ELSE Abort(I2cError)

\* the value parser each reading operation applies to the received bytes
Parse(op, data) ==
    CASE op = "is_data_ready" -> DataStatus_try_from(data)
      [] op = "read_measured_values" -> Measurement_try_from(data)
      [] op = "read_measured_raw_values" -> RawMeasurement_try_from(data)
      [] op = "read_number_concentrations" -> Concentrations_try_from(data)
      [] op = "get_product_name" -> ProductName_try_from(data)
      [] op = "get_serial_number" -> SerialNumber_try_from(data)
      [] op = "read_device_status" -> DeviceStatusRegister_try_from(data)
      [] op = "read_and_clear_device_status" -> DeviceStatusRegister_try_from(data)
      [] op = "get_voc_tuning_parameters" -> VocTuning_try_from(data)
      [] op = "get_voc_algorithm_state" -> VocAlgorithmState_try_from(data)
      [] op = "get_nox_tuning_parameters" -> NoxTuning_try_from(data)
      [] op = "perform_forced_co2_recalibration" -> Co2Correction_try_from(data, overflow_checks)
      [] op = "get_co2_asc_state" -> AscState_try_from(data)
      [] op = "get_ambient_pressure" -> AmbientPressure_try_from(data)
      [] op = "get_sensor_altitude" -> SensorAltitude_try_from(data)

\* variant: the correction is returned without the validity test
Returned_unvalidated(op, data) ==
    LET value == Parse(op, data) IN
    IF value.kind = "Panic" THEN Panic
    ELSE IF value.kind = "Err" THEN DataError(value.value)
    ELSE Ok(value.value)

\* Ok(T::try_from(&received[..])?), and the validity test of the FRC reply
Returned(op, data) ==
    LET value == Parse(op, data) IN
    IF value.kind = "Panic" THEN Panic
    ELSE IF value.kind = "Err" THEN DataError(value.value)
    ELSE IF op = "perform_forced_co2_recalibration" /\ ~Co2Correction_is_valid(value.value)
         THEN FailedCo2Recalibration
         ELSE Ok(value.value)

\* start_measurement after write(..).await? : self.state = Measuring; Ok(())
start_measurement_tail ==
    /\ pc = "tail"
    /\ cur.op = "start_measurement"
    /\ state' = "Measuring"
    /\ result' = Ok(<<>>)
    /\ pc' = "ready"
    /\ UNCHANGED <<owner, cur, log, received, overflow_checks>>

\* variant: a completed stop leaves the state field as it was
stop_measurement_tail_keeps_state ==
    /\ pc = "tail"
    /\ cur.op = "stop_measurement"
    /\ state' = state
    /\ IF cur.outer = "shutdown"
       THEN result' = Ok("peripherals") /\ owner' = "caller"
       ELSE result' = Ok(<<>>) /\ owner' = owner
    /\ pc' = "ready"
    /\ UNCHANGED <<cur, log, received, overflow_checks>>

\* stop_measurement after write(..).await? : self.state = Idle; Ok(()); when
\* called by shutdown, Ok((self.delay, self.i2c)) follows
stop_measurement_tail ==
    /\ pc = "tail"
    /\ cur.op = "stop_measurement"
    /\ state' = "Idle"
    /\ IF cur.outer = "shutdown"
       THEN result' = Ok("peripherals") /\ owner' = "caller"
       ELSE result' = Ok(<<>>) /\ owner' = owner
    /\ pc' = "ready"
    /\ UNCHANGED <<cur, log, received, overflow_checks>>

\* every other operation built on write(): Ok(()) is handed on
write_tail ==
    /\ pc = "tail"
    /\ cur.helper = "write"
    /\ cur.op \notin {"start_measurement", "stop_measurement"}
    /\ result' = Ok(<<>>)
    /\ pc' = "ready"
    /\ UNCHANGED <<state, owner, cur, log, received, overflow_checks>>

\* every operation built on write_read(): parse the received buffer
write_read_tail ==
    /\ pc = "tail"
    /\ cur.helper = "write_read"
    /\ result' = Returned(cur.op, received)
    /\ pc' = "ready"
    /\ UNCHANGED <<state, owner, cur, log, received, overflow_checks>>

Next ==
    \/ start_measurement
    \/ stop_measurement
    \/ is_data_ready
    \/ read_measured_values
    \/ read_measured_raw_values
    \/ read_number_concentrations
    \/ set_temperature_offset
    \/ set_temperature_acceleration
    \/ get_product_name
    \/ get_serial_number
    \/ read_device_status
    \/ read_and_clear_device_status
    \/ reset_device
    \/ start_fan_cleaning
    \/ activate_sht_heater
    \/ get_voc_tuning_parameters
    \/ set_voc_tuning_parameters
    \/ get_voc_algorithm_state
    \/ set_voc_algorithm_state
    \/ get_nox_tuning_parameters
    \/ set_nox_tuning_parameters
    \/ perform_forced_co2_recalibration
    \/ get_co2_asc_state
    \/ set_co2_asc_state
    \/ get_ambient_pressure
    \/ set_ambient_pressure
    \/ get_sensor_altitude
    \/ set_sensor_altitude
    \/ shutdown
    \/ kill
    \/ new
    \/ I2cWrite
    \/ DelayMs
    \/ I2cRead
    \/ start_measurement_tail
    \/ stop_measurement_tail
    \/ write_tail
    \/ write_read_tail

Spec == Init /\ [][Next]_vars

TypeOK ==
    /\ state \in {"Idle", "Measuring"}
    /\ owner \in {"driver", "caller", "dropped"}
    /\ pc \in {"ready", "write", "delay", "read", "tail"}
    /\ overflow_checks \in BOOLEAN

(***************************************************************************)
(* The word codec on its own: words are framed as write() frames them, the *)
(* bytes may be damaged on the wire (one bit flipped, the length changed), *)
(* and the receiving side applies check_deserialization or the parser of   *)
(* the reply type of that length.  cur.data holds the words, cur.rx the    *)
(* length the parser expects, cur.helper and cur.tx what the wire did.     *)
(***************************************************************************)
\* longest list of arbitrary words that is framed
MaxWords == 2

\* lists of the words 0x0000 0x0001 0xBEEF 0xFFFF, and two states of 4 words
CodecWordLists ==
    UNION { [1..n -> {0, 1, 48879, 65535}] : n \in 1..MaxWords }
    \cup {<<258, 772, 1286, 1800>>, <<0, 255, 65280, 65535>>}

InitCodec ==
    /\ state = "Idle"
    /\ owner = "driver"
    /\ pc = "words"
    /\ \E words \in CodecWordLists :
         cur = [NoCall EXCEPT !.data = words, !.rx = 3 * Len(words), !.helper = "intact"]
    /\ log = <<>>
    /\ received = <<>>
    /\ result = Pending
    /\ overflow_checks = TRUE

\* the data bytes of a frame, as the loop of write() produces them
CodecFrame ==
    /\ pc = "words"
    /\ received' = FrameWords(cur.data)
    /\ pc' = "wire"
    /\ UNCHANGED <<state, owner, cur, log, result, overflow_checks>>

\* bit `bit` of byte i (1-based) inverted
FlipBit(data, i, bit) ==
    [data EXCEPT ![i] = IF (data[i] \div (2 ^ bit)) % 2 = 1
                        THEN data[i] - 2 ^ bit ELSE data[i] + 2 ^ bit]

\* the transport delivers the buffer with one bit of one byte inverted
CodecFlipBit ==
    /\ pc = "wire"
    /\ cur.helper = "intact"
    /\ Len(received) = cur.rx
    /\ \E i \in 1..Len(received), bit \in 0..7 :
         /\ received' = FlipBit(received, i, bit)
         /\ cur' = [cur EXCEPT !.helper = "flipped", !.tx = i]
    /\ UNCHANGED <<state, owner, pc, log, result, overflow_checks>>

\* the parser is handed a buffer of another length than it expects
CodecResize ==
    /\ pc = "wire"
    /\ Len(received) = cur.rx
    /\ \E n \in {cur.rx - 3, cur.rx - 1, cur.rx + 1} :
         received' = [i \in 1..n |-> IF i <= Len(received) THEN received[i] ELSE 0]
    /\ UNCHANGED <<state, owner, pc, cur, log, result, overflow_checks>>

apply_check_deserialization ==
    /\ pc = "wire"
    /\ result' = check_deserialization(received, cur.rx)
    /\ cur' = [cur EXCEPT !.op = "check_deserialization"]
    /\ pc' = "done"
    /\ UNCHANGED <<state, owner, log, received, overflow_checks>>

\* the parsers of the word-valued reply types of 3, 6 and 12 bytes
apply_try_from ==
    /\ pc = "wire"
    /\ cur.rx \in {3, 6, 12}
    /\ result' = CASE cur.rx = 3 -> AmbientPressure_try_from(received)
                   [] cur.rx = 6 -> DeviceStatusRegister_try_from(received)
                   [] cur.rx = 12 -> VocAlgorithmState_try_from(received)
    /\ cur' = [cur EXCEPT !.op = CASE cur.rx = 3 -> "AmbientPressure"
                                   [] cur.rx = 6 -> "DeviceStatusRegister"
                                   [] cur.rx = 12 -> "VocAlgorithmState"]
    /\ pc' = "done"
    /\ UNCHANGED <<state, owner, log, received, overflow_checks>>

\* set_voc_algorithm_state(value) with the value get_voc_algorithm_state
\* returned: the frame its write() hands to the transport
send_back_voc_algorithm_state ==
    /\ pc = "done"
    /\ cur.op = "VocAlgorithmState"
    /\ result.kind = "Ok"
    /\ log' = <<WriteEv(BitOr(ADDRESS, WRITE_FLAG),
                        Sent(14, "SetReadVocAlgorithmState",
                             VocAlgorithmState_to_words(result.value)).bytes, TRUE)>>
    /\ pc' = "sent"
    /\ UNCHANGED <<state, owner, cur, received, result, overflow_checks>>

NextCodec ==
    \/ CodecFrame
    \/ CodecFlipBit
    \/ CodecResize
    \/ apply_check_deserialization
    \/ apply_try_from
    \/ send_back_voc_algorithm_state

CodecSpec == InitCodec /\ [][NextCodec]_vars

(***************************************************************************)
(* compute_crc8 on its own: applied to every buffer of two bytes.          *)
(***************************************************************************)
InitCrc ==
    /\ state = "Idle"
    /\ owner = "driver"
    /\ pc = "input"
    /\ cur = [NoCall EXCEPT !.op = "compute_crc8"]
    /\ log = <<>>
    /\ received \in [1..2 -> 0..255]
    /\ result = Pending
    /\ overflow_checks = TRUE

apply_compute_crc8 ==
    /\ pc = "input"
    /\ result' = Ok(compute_crc8(received))
    /\ pc' = "done"
    /\ UNCHANGED <<state, owner, cur, log, received, overflow_checks>>

NextCrc == apply_compute_crc8

CrcSpec == InitCrc /\ [][NextCrc]_vars

(***************************************************************************)
(* The value types on their own.  cur.data holds the arguments of a        *)
(* constructor or the words of a reply, received the correctly             *)
(* checksummed reply, cur.rx its length: one word (3), a device status     *)
(* register (6), six tuning parameters (18), a name (48, cur.data holds    *)
(* its 32 data bytes), a measurement of nine words (27), or the four       *)
(* arguments of a temperature configuration or no argument at all (0).     *)
(***************************************************************************)
\* the low words, and the words around each limit the value types test
WordSamples ==
    (0..260) \cup {511, 512, 699, 700, 701, 1013, 1199, 1200, 1201, 2999, 3000, 3001,
                   32767, 32768, 32769, 33768, 65279, 65280, 65281, 65534, 65535}

InitValue ==
    /\ state = "Idle"
    /\ owner = "driver"
    /\ pc = "input"
    /\ \/ \E w \in WordSamples :
            /\ cur = [NoCall EXCEPT !.data = <<w>>, !.rx = 3]
            /\ received = SensorFrame(<<w>>)
       \* a status register: every combination of the error bits 11, 9, 7, 6, 4
       \* with other bits of the low half, and bit 21 and others in the high half
       \/ \E w0 \in {0, 32, 2768, 65535},
             e \in SUBSET {2048, 512, 128, 64, 16}, other \in {0, 1, 62767} :
            LET w1 == BitOr(other, BitOr(IF 2048 \in e THEN 2048 ELSE 0,
                        BitOr(IF 512 \in e THEN 512 ELSE 0,
                        BitOr(IF 128 \in e THEN 128 ELSE 0,
                        BitOr(IF 64 \in e THEN 64 ELSE 0,
                              IF 16 \in e THEN 16 ELSE 0)))))
            IN  /\ cur = [NoCall EXCEPT !.data = <<w0, w1>>, !.rx = 6]
                /\ received = SensorFrame(<<w0, w1>>)
       \* six i16 tuning parameters around each limit, the documented defaults,
       \* and the reply that carries them
       \/ \E args \in ({0, 1, 250, 251} \X {1, 1001} \X {-32768, 1000}
                        \X {-1, 0, 3000, 3001} \X {9, 10, 5000, 5001} \X {0, 1, 1000})
                      \cup {<<100, 12, 12, 180, 50, 230>>, <<1, 12, 12, 720, 50, 230>>,
                            <<1, 0, 1, 0, 10, 1>>, <<1, 1000, 1001, 0, 10, 1>>,
                            <<1, 1, 0, 0, 10, 1>>, <<1, 1, 1, 0, 10, 1001>>,
                            <<1, 1, 1, 0, 10, 32767>>} :
            /\ cur = [NoCall EXCEPT !.data = args, !.rx = 18]
            /\ received = SensorFrame([i \in 1..6 |-> as_u16(args[i])])
       \* a name of k characters, a null terminator (none when k = 32) and a
       \* filler after it, one byte possibly replaced by 127 or 128
       \/ \E k \in 0..32, filler \in {0, 195}, at \in {0, 2, 32},
             c \in {127, 128} :
            LET bytes == [i \in 1..32 |->
                            IF i = at THEN c
                            ELSE IF i <= k THEN 64 + i
                            ELSE IF i = k + 1 THEN 0 ELSE filler]
            IN  /\ cur = [NoCall EXCEPT !.data = bytes, !.rx = 48]
                /\ received = SensorFrame([i \in 1..16 |->
                                  u16_from_be_bytes(bytes[2 * i - 1], bytes[2 * i])])
       \* the four arguments of TemperatureOffset::new (i16, i16, u16, u16) and
       \* of TemperatureAcceleration::new (four u16)
       \/ \E args \in ({-32768, -164, -163, -1, 0, 163, 164, 32767} \X {-4, -3, 0, 3, 4}
                        \X {0, 10, 65535} \X {0, 4, 5, 65535})
                      \cup ({0, 6553, 6554, 65535} \X {2, 6554} \X {3, 6553, 6554}
                            \X {0, 6553, 65535}) :
            /\ cur = [NoCall EXCEPT !.data = args, !.rx = 0]
            /\ received = <<>>
       \* the nine words of a measurement: distinct words, one of them
       \* possibly replaced by a limit of the signed or unsigned range
       \/ \E at \in 0..9, w \in {0, 32767, 32768, 65535} :
            LET words == [i \in 1..9 |-> IF i = at THEN w ELSE 1000 * i + i]
            IN  /\ cur = [NoCall EXCEPT !.data = words, !.rx = 27]
                /\ received = SensorFrame(words)
       \/ cur = NoCall /\ received = <<>>
    /\ log = <<>>
    /\ result = Pending
    /\ overflow_checks \in BOOLEAN

\* the outcome of applying the function named op to the input
Applied(op, value) ==
    /\ cur' = [cur EXCEPT !.op = op]
    /\ result' = value
    /\ pc' = "done"
    /\ UNCHANGED <<state, owner, log, received, overflow_checks>>

apply_DataStatus_try_from ==
    /\ pc = "input" /\ cur.rx = 3
    /\ Applied("DataStatus", DataStatus_try_from(received))

apply_AscState_try_from ==
    /\ pc = "input" /\ cur.rx = 3
    /\ Applied("AscState", AscState_try_from(received))

\* perform_forced_co2_recalibration from the received reply on
apply_Co2Correction_try_from ==
    /\ pc = "input" /\ cur.rx = 3
    /\ Applied("Co2Correction", Returned("perform_forced_co2_recalibration", received))

apply_AmbientPressure_try_from_u16 ==
    /\ pc = "input" /\ cur.rx = 3
    /\ Applied("AmbientPressure", AmbientPressure_try_from_u16(cur.data[1]))

apply_SensorAltitude_try_from_u16 ==
    /\ pc = "input" /\ cur.rx = 3
    /\ Applied("SensorAltitude", SensorAltitude_try_from_u16(cur.data[1]))

\* read_device_status(..)?.has_error() from the received reply on
apply_has_error ==
    /\ pc = "input" /\ cur.rx = 6
    /\ LET register == DeviceStatusRegister_try_from(received) IN
       Applied("has_error",
               IF register.kind = "Ok" THEN has_error(register.value) ELSE register)

apply_VocTuning_new ==
    /\ pc = "input" /\ cur.rx = 18
    /\ Applied("VocTuning_new",
               VocTuning_new(cur.data[1], cur.data[2], cur.data[3], cur.data[4],
                             cur.data[5], cur.data[6]))

\* NoxTuning::new takes no initial standard deviation
apply_NoxTuning_new ==
    /\ pc = "input" /\ cur.rx = 18
    /\ Applied("NoxTuning_new",
               NoxTuning_new(cur.data[1], cur.data[2], cur.data[3], cur.data[4],
                             cur.data[6]))

apply_VocTuning_try_from ==
    /\ pc = "input" /\ cur.rx = 18
    /\ Applied("VocTuning_try_from", VocTuning_try_from(received))

apply_NoxTuning_try_from ==
    /\ pc = "input" /\ cur.rx = 18
    /\ Applied("NoxTuning_try_from", NoxTuning_try_from(received))

apply_VocTuning_default ==
    /\ pc = "input" /\ cur.data = <<>>
    /\ Applied("VocTuning_default", Ok(VocTuning_default))

apply_NoxTuning_default ==
    /\ pc = "input" /\ cur.data = <<>>
    /\ Applied("NoxTuning_default", Ok(NoxTuning_default))

\* a constructed tuning serialised to six words, framed as the sensor frames a
\* reply, and parsed again; cur.tx counts the conversions made
tuning_round_trip ==
    /\ pc = "done"
    /\ cur.op \in {"VocTuning_new", "NoxTuning_new"}
    /\ result.kind = "Ok"
    /\ cur.tx = 0
    /\ LET words == IF cur.op = "VocTuning_new" THEN VocTuning_to_words(result.value)
                    ELSE NoxTuning_to_words(result.value)
       IN  /\ received' = SensorFrame(words)
           /\ result' = IF cur.op = "VocTuning_new" THEN VocTuning_try_from(received')
                        ELSE NoxTuning_try_from(received')
    /\ cur' = [cur EXCEPT !.tx = 1]
    /\ UNCHANGED <<state, owner, pc, log, overflow_checks>>

apply_TemperatureOffset_new ==
    /\ pc = "input" /\ cur.rx = 0 /\ Len(cur.data) = 4
    /\ cur.data[3] \in 0..U16_MAX /\ cur.data[4] \in 0..U16_MAX
    /\ Applied("TemperatureOffset_new",
               TemperatureOffset_new(cur.data[1], cur.data[2], cur.data[3], cur.data[4]))

apply_TemperatureAcceleration_new ==
    /\ pc = "input" /\ cur.rx = 0 /\ Len(cur.data) = 4
    /\ \A i \in 1..4 : cur.data[i] \in 0..U16_MAX
    /\ Applied("TemperatureAcceleration_new",
               TemperatureAcceleration_new(cur.data[1], cur.data[2], cur.data[3],
                                           cur.data[4]))

apply_ProductName_try_from ==
    /\ pc = "input" /\ cur.rx = 48
    /\ Applied("ProductName_try_from", ProductName_try_from(received))

apply_Measurement_try_from ==
    /\ pc = "input" /\ cur.rx = 27
    /\ Applied("Measurement_try_from", Measurement_try_from(received))

NextValue ==
    \/ apply_DataStatus_try_from
    \/ apply_AscState_try_from
    \/ apply_Co2Correction_try_from
    \/ apply_AmbientPressure_try_from_u16
    \/ apply_SensorAltitude_try_from_u16
    \/ apply_has_error
    \/ apply_VocTuning_new
    \/ apply_NoxTuning_new
    \/ apply_VocTuning_try_from
    \/ apply_NoxTuning_try_from
    \/ apply_VocTuning_default
    \/ apply_NoxTuning_default
    \/ tuning_round_trip
    \/ apply_TemperatureOffset_new
    \/ apply_TemperatureAcceleration_new
    \/ apply_ProductName_try_from
    \/ apply_Measurement_try_from

ValueSpec == InitValue /\ [][NextValue]_vars

(***************************************************************************)
(* Properties.                                                             *)
(***************************************************************************)
\* the admission table as the documentation states it
MeasuringOnlyOps ==
    {"stop_measurement", "is_data_ready", "read_measured_values",
     "read_measured_raw_values", "read_number_concentrations"}

IdleOnlyOps ==
    {"start_measurement", "set_temperature_acceleration", "reset_device",
     "start_fan_cleaning", "activate_sht_heater", "get_voc_tuning_parameters",
     "set_voc_tuning_parameters", "set_voc_algorithm_state",
     "get_nox_tuning_parameters", "set_nox_tuning_parameters",
     "perform_forced_co2_recalibration", "get_co2_asc_state", "set_co2_asc_state",
     "get_sensor_altitude", "set_sensor_altitude"}

EitherStateOps ==
    {"set_temperature_offset", "get_product_name", "get_serial_number",
     "read_device_status", "read_and_clear_device_status",
     "get_voc_algorithm_state", "get_ambient_pressure", "set_ambient_pressure"}

GatedOps == MeasuringOnlyOps \cup IdleOnlyOps

Permits(op) ==
    IF op \in MeasuringOnlyOps THEN {"Measuring"}
    ELSE IF op \in IdleOnlyOps THEN {"Idle"}
    ELSE {"Idle", "Measuring"}

\* the state an operation requires, for the gated ones
Requires(op) == IF op \in MeasuringOnlyOps THEN "Measuring" ELSE "Idle"

Kinds(l) == [i \in 1..Len(l) |-> l[i].kind]

\* a call has returned to its caller
Returned_to_caller == pc = "ready" /\ cur.op # "none"

\* C1: a gated operation issued in a state that does not permit it returns
\* WrongState at once: no transport write, no transport read, no delay, and
\* the driver state is the same after the call as before it.
C1_WrongStateNoTraffic ==
    [][ (CanCall /\ cur'.op \in GatedOps /\ state \notin Permits(cur'.op))
        => /\ result'.kind = "WrongState"
           /\ log' = <<>>
           /\ pc' = "ready"
           /\ state' = state
           /\ owner' = owner ]_vars

C1_Witness ==
    /\ Returned_to_caller
    /\ cur.op = "reset_device"
    /\ state = "Measuring"
    /\ result.kind = "WrongState"
    /\ log = <<>>

\* C2: start_measurement that returns Ok has written exactly [0x00,0x21] and
\* the driver is Measuring; stop_measurement that returns Ok has written
\* exactly [0x01,0x04] and the driver is Idle; start admitted in Idle and stop
\* admitted in Measuring return Ok when the transport succeeds; stop_measurement
\* issued in Idle fails and writes nothing.
C2_Scenario ==
    /\ [](Returned_to_caller /\ cur.op = "start_measurement" /\ result.kind = "Ok"
            => /\ state = "Measuring"
               /\ Len(log) >= 1
               /\ log[1].kind = "write" /\ log[1].bytes = <<0, 33>>
               /\ \A i \in 2..Len(log) : log[i].kind # "write")
    /\ [](Returned_to_caller /\ cur.op = "stop_measurement" /\ result.kind = "Ok"
            => /\ state = "Idle"
               /\ Len(log) >= 1
               /\ log[1].kind = "write" /\ log[1].bytes = <<1, 4>>
               /\ \A i \in 2..Len(log) : log[i].kind # "write")
    /\ [](Returned_to_caller /\ cur.op \in {"start_measurement", "stop_measurement"}
            /\ Len(log) >= 1 /\ (\A i \in 1..Len(log) : log[i].ok)
            => result.kind = "Ok")
    /\ [][ (CanCall /\ state = "Idle" /\ cur'.op = "start_measurement")
            => pc' = "write" ]_vars
    /\ [][ (CanCall /\ state = "Idle" /\ cur'.op = "stop_measurement")
            => result'.kind # "Ok" /\ log' = <<>> /\ pc' = "ready" ]_vars

\* a stop that succeeded: only reachable after a start has succeeded
C2_Witness ==
    /\ Returned_to_caller
    /\ cur.op = "stop_measurement"
    /\ cur.outer = "none"
    /\ result.kind = "Ok"
    /\ state = "Idle"

\* C3: when the transport write of start_measurement or stop_measurement
\* fails, the call returns the transport error and the driver state is what
\* it was before the call: Idle for start, Measuring for stop.
C3_FailedTransitionKeepsState ==
    /\ [][ (pc = "write" /\ cur.op \in {"start_measurement", "stop_measurement"}
             /\ Len(log') = 1 /\ ~log'[1].ok)
            => result' = I2cError /\ pc' = "ready" /\ state' = state ]_vars
    /\ [](Returned_to_caller /\ result = I2cError /\ cur.op = "start_measurement"
            => state = "Idle")
    /\ [](Returned_to_caller /\ result = I2cError /\ cur.op = "stop_measurement"
            => state = "Measuring")

C3_Witness ==
    /\ Returned_to_caller
    /\ cur.op = "stop_measurement"
    /\ result = I2cError
    /\ state = "Measuring"
    /\ Len(log) = 1 /\ ~log[1].ok

\* C4: the state of a driver instance changes only in the step that completes
\* a start_measurement or a stop_measurement (the one inside shutdown
\* included) with Ok; no other operation and no failing call changes it.
C4_OnlyTransitionsChangeState ==
    [][ (owner = "driver" /\ state' # state)
        => /\ cur.op \in {"start_measurement", "stop_measurement"}
           /\ result'.kind = "Ok"
           /\ state' = (IF cur.op = "start_measurement" THEN "Measuring" ELSE "Idle") ]_vars

\* a read whose decoding failed while Measuring
C4_Witness ==
    /\ Returned_to_caller
    /\ cur.op = "get_voc_algorithm_state"
    /\ result.kind = "DataError"
    /\ state = "Measuring"

C7_WriteDelayCommit ==
    /\ [](Returned_to_caller /\ cur.helper = "write" /\ Len(log) >= 1 /\ log[1].ok
            => /\ Kinds(log) = <<"write", "delay">>
               /\ SubSeq(log[1].bytes, 1, 2) = to_be_bytes(Command[cur.command])
               /\ log[2].n = execution_time_ms(cur.command)
               /\ result.kind = "Ok")
    /\ [](cur.helper = "write" /\ pc = "tail" => Kinds(log) = <<"write", "delay">>)
    /\ [][ (owner = "driver" /\ state' # state)
            => Kinds(log) = <<"write", "delay">> /\ log[1].ok /\ log' = log ]_vars

C7_Witness ==
    /\ Returned_to_caller
    /\ cur.op = "activate_sht_heater"
    /\ result.kind = "Ok"
    /\ Kinds(log) = <<"write", "delay">>
    /\ log[2].n = 1300

\* C8: a transport read is only ever the third request of a write-then-read
\* operation, after its write (which succeeded) and after the delay of its
\* command's execution time; and such an operation whose write succeeded
\* does issue the read.
C8_ReadAfterWriteAndDelay ==
    /\ [](\A i \in 1..Len(log) :
            log[i].kind = "read"
                => /\ i = 3
                   /\ cur.helper = "write_read"
                   /\ log[1].kind = "write" /\ log[1].ok
                   /\ log[2].kind = "delay"
                   /\ log[2].n = execution_time_ms(cur.command))
    /\ [](Returned_to_caller /\ cur.helper = "write_read" /\ Len(log) >= 1 /\ log[1].ok
            => Kinds(log) = <<"write", "delay", "read">>)

C8_Witness ==
    /\ Returned_to_caller
    /\ cur.op = "perform_forced_co2_recalibration"
    /\ Kinds(log) = <<"write", "delay", "read">>
    /\ log[2].n = 500
    /\ result.kind = "Ok"

\* C9: a failed transport request is the last request of its call: the call
\* has returned I2cError, nothing was decoded, and the step in which the
\* request failed left the driver state as it was.
C9_TransportErrorAborts ==
    /\ [](\A i \in 1..Len(log) :
            ~log[i].ok
                => /\ i = Len(log)
                   /\ pc = "ready"
                   /\ result = I2cError
                   /\ received = <<>>)
    /\ [][ (Len(log') > Len(log) /\ ~log'[Len(log')].ok)
            => state' = state /\ result' = I2cError ]_vars

C9_Witness ==
    /\ Returned_to_caller
    /\ cur.op = "read_measured_values"
    /\ Kinds(log) = <<"write", "delay", "read">>
    /\ ~log[3].ok
    /\ result = I2cError
    /\ state = "Measuring"

\* C10: shutdown entered while Measuring starts the stop-measurement
\* transaction and keeps the peripherals until it is complete: when they are
\* handed back the requests made are exactly the write of [0x01,0x04] and a
\* delay of 1000 ms; shutdown entered while Idle hands them back at once with
\* no request at all.
C10_ShutdownStopsFirst ==
    /\ [][ (CanCall /\ cur'.outer = "shutdown")
            => IF state = "Measuring"
               THEN /\ pc' = "write"
                    /\ owner' = "driver"
                    /\ cur'.command = "StopMeasurement"
               ELSE /\ pc' = "ready"
                    /\ owner' = "caller"
                    /\ result'.kind = "Ok"
                    /\ log' = <<>> ]_vars
    /\ [](cur.outer = "shutdown" /\ cur.op = "stop_measurement" /\ owner = "caller"
            => /\ Kinds(log) = <<"write", "delay">>
               /\ log[1].bytes = <<1, 4>>
               /\ log[2].n = 1000
               /\ result.kind = "Ok"
               /\ state = "Idle")
    /\ [](cur.outer = "shutdown" /\ pc # "ready" => owner = "driver")

C10_Witness ==
    /\ cur.outer = "shutdown"
    /\ cur.op = "stop_measurement"
    /\ owner = "caller"
    /\ Len(log) = 2

\* C11: kill can be called in both states and in each of them hands back the
\* delay and the transport at once: no transport write, no read, no delay, no
\* error value, and the driver state is not touched.
C11_KillReleasesAtOnce ==
    /\ [](CanCall => ENABLED kill)
    /\ [][ (CanCall /\ cur'.op = "kill")
            => /\ log' = <<>>
               /\ pc' = "ready"
               /\ owner' = "caller"
               /\ result' = [kind |-> "Returned", value |-> "peripherals"]
               /\ state' = state ]_vars
    /\ [](cur.op = "kill" => log = <<>> /\ owner = "caller")

C11_Witness ==
    /\ cur.op = "kill"
    /\ state = "Measuring"
    /\ owner = "caller"
    /\ log = <<>>

\* C12: every frame given to the transport write is the two opcode bytes of
\* the call's command, high byte first, followed for each of its k data words
\* in order by the word's high byte, low byte and the CRC-8 of these two
\* bytes: 2 + 3k bytes in all, the third byte already belonging to the first
\* data word.
C12_FrameLayout ==
    \A i \in 1..Len(log) :
        log[i].kind = "write"
            => LET bytes == log[i].bytes
                   k == Len(cur.data)
               IN  /\ Len(bytes) = 2 + 3 * k
                   /\ bytes[1] = Command[cur.command] \div 256
                   /\ bytes[2] = Command[cur.command] % 256
                   /\ \A j \in 1..k :
                        /\ bytes[3 * j] = cur.data[j] \div 256
                        /\ bytes[3 * j + 1] = cur.data[j] % 256
                        /\ bytes[3 * j + 2] =
                             compute_crc8(<<cur.data[j] \div 256, cur.data[j] % 256>>)

C12_Witness ==
    /\ Returned_to_caller
    /\ cur.op = "set_voc_tuning_parameters"
    /\ Len(log) = 2
    /\ Len(log[1].bytes) = 20
    /\ Len(cur.data) = 6
    /\ cur.data[1] = 250

\* the words a parsed value of the codec run stands for
DecodedWords(value) ==
    CASE cur.rx = 3 -> <<AmbientPressure_to_u16(value)>>
      [] cur.rx = 6 -> <<value.hi, value.lo>>
      [] cur.rx = 12 -> VocAlgorithmState_to_words(value)

\* C13: check_deserialization returns ReceivedBufferWrongSize exactly when the
\* buffer's length differs from the expected length (whatever its checksums),
\* otherwise CrcFailed exactly when some 3-byte group's third byte is not the
\* CRC-8 of its first two, otherwise Ok; and it leaves the buffer as it was.
C13_CheckDeserialization ==
    /\ [](pc = "done" /\ cur.op = "check_deserialization"
            => result =
                 IF Len(received) # cur.rx THEN Err(ReceivedBufferWrongSize)
                 ELSE IF \E g \in 0..((Len(received) \div 3) - 1) :
                           received[3 * g + 3]
                               # compute_crc8(<<received[3 * g + 1], received[3 * g + 2]>>)
                      THEN Err(CrcFailed)
                      ELSE Ok(<<>>))
    /\ [][ pc = "wire" /\ pc' = "done" => received' = received ]_vars

\* a buffer with a damaged byte and one byte too many: the size is reported
C13_Witness ==
    /\ pc = "done"
    /\ cur.op = "check_deserialization"
    /\ cur.helper = "flipped"
    /\ Len(received) = cur.rx + 1
    /\ result = Err(ReceivedBufferWrongSize)

\* C14: words framed as write() frames them and delivered undamaged pass the
\* checksum check and are parsed back to the same words; and the frame that
\* set_voc_algorithm_state writes for a parsed VocAlgorithmState carries, after
\* the opcode, exactly the 12 bytes it was parsed from.
C14_RoundTrip ==
    /\ (pc = "done" /\ cur.helper = "intact" /\ Len(received) = cur.rx
          => /\ result.kind = "Ok"
             /\ cur.op # "check_deserialization" => DecodedWords(result.value) = cur.data)
    /\ (pc = "sent"
          => /\ Len(log[1].bytes) = 14
             /\ SubSeq(log[1].bytes, 3, 14) = received)

C14_Witness ==
    /\ pc = "sent"
    /\ cur.data = <<258, 772, 1286, 1800>>
    /\ received[1] = 1 /\ received[2] = 2 /\ received[4] = 3 /\ received[11] = 8
    /\ result = Ok(<<1, 2, 3, 4, 5, 6, 7, 8>>)

\* C15: a correctly framed buffer in which one bit of one checksum byte was
\* inverted is rejected with CrcFailed, by check_deserialization and by every
\* parser built on it.
C15_ChecksumBitFlip ==
    (pc = "done" /\ cur.helper = "flipped" /\ cur.tx % 3 = 0 /\ Len(received) = cur.rx)
        => result = Err(CrcFailed)

C15_Witness ==
    /\ pc = "done"
    /\ cur.helper = "flipped"
    /\ cur.tx = 6
    /\ Len(received) = 6
    /\ BitXor(received[6], 128) = compute_crc8(<<received[4], received[5]>>)
    /\ cur.op = "DeviceStatusRegister"
    /\ result = Err(CrcFailed)

\* bit k of m inverted
Toggle(m, k) == IF (m \div (2 ^ k)) % 2 = 1 THEN m - 2 ^ k ELSE m + 2 ^ k

\* long division modulo 2 of the message m by x^8 + x^5 + x^4 + 1 (0x31 with
\* its leading term): wherever bit k >= 8 is set, the generator is subtracted
\* with its leading term at k
RECURSIVE PolyRemainder(_, _)
PolyRemainder(m, k) ==
    IF k < 8 THEN m
    ELSE IF (m \div (2 ^ k)) % 2 = 0 THEN PolyRemainder(m, k - 1)
    ELSE PolyRemainder(Toggle(Toggle(Toggle(Toggle(m, k), k - 3), k - 4), k - 8), k - 1)

\* the reference CRC-8 of two bytes: initial value 0xFF (the first byte enters
\* inverted), bits taken most significant first (no reflection), eight zero
\* bits appended, nothing XORed onto the remainder
ReferenceCrc8(data) ==
    PolyRemainder((255 - data[1]) * 65536 + data[2] * 256, 23)

\* C16: for every two-byte input compute_crc8 returns the remainder of the
\* reference CRC-8 (polynomial 0x31, initial value 0xFF, not reflected, no
\* final XOR), every value its register takes on the way fits in 8 bits, and
\* the bytes 0xBE 0xEF give 0x92.
C16_Crc8Reference ==
    (pc = "done" /\ cur.op = "compute_crc8")
        => LET registers == Crc8Registers(received) IN
           /\ result = Ok(ReferenceCrc8(received))
           /\ \A i \in 1..Len(registers) : registers[i] \in 0..255
           /\ Len(registers) = 19
           /\ registers[19] = result.value
           /\ received = <<190, 239>> => result = Ok(146)

C16_Witness ==
    /\ pc = "done"
    /\ cur.op = "compute_crc8"
    /\ received = <<190, 239>>
    /\ result = Ok(146)

\* C17 as stated: of the correctly checksummed one-word replies, the
\* data-ready parser and the ASC-state parser accept the word 0x0000
\* (NotReady, Disabled) and the word 0x0001 (Ready, Enabled) and answer every
\* other 16-bit word with UnexpectedValueReceived.
C17_OnlyZeroAndOne ==
    (pc = "done" /\ cur.op \in {"DataStatus", "AscState"})
        => LET w == cur.data[1] IN
           /\ w = 0 => result = Ok(IF cur.op = "DataStatus" THEN "NotReady" ELSE "Disabled")
           /\ w = 1 => result = Ok(IF cur.op = "DataStatus" THEN "Ready" ELSE "Enabled")
           /\ w \notin {0, 1}
                => result.kind = "Err" /\ result.value.err = "UnexpectedValueReceived"

\* C18: perform_forced_co2_recalibration whose correctly checksummed reply is
\* the word 0xFFFF returns FailedCo2Recalibration (no DataError, no value);
\* the reply [0x83,0xE8,0xF7] makes it return the correction 1000.
C18_FailedRecalibration ==
    (Returned_to_caller /\ cur.op = "perform_forced_co2_recalibration"
        /\ Kinds(log) = <<"write", "delay", "read">> /\ log[3].ok)
        => /\ (received[1] = 255 /\ received[2] = 255
                 /\ received[3] = compute_crc8(<<255, 255>>))
                => result = FailedCo2Recalibration
           /\ received = <<131, 232, 247>> => result = Ok(1000)

C18_Witness ==
    /\ Returned_to_caller
    /\ cur.op = "perform_forced_co2_recalibration"
    /\ Kinds(log) = <<"write", "delay", "read">>
    /\ received = <<255, 255, 172>>
    /\ result = FailedCo2Recalibration
    /\ result.kind \notin {"DataError", "Ok"}

\* C19 as stated: a forced recalibration whose correctly checksummed reply
\* word r is not 0xFFFF succeeds with the correction r - 0x8000 (taken as a
\* 16-bit value), and only r = 0xFFFF is reported as a failed calibration.
C19_CorrectionIsReplyMinus0x8000 ==
    (pc = "done" /\ cur.op = "Co2Correction")
        => LET r == cur.data[1] IN
           IF r = 65535
           THEN result = FailedCo2Recalibration
           ELSE /\ result.kind = "Ok"
                /\ (result.value + 32768) % 65536 = r

C21_ReadValuesInRange ==
    (Returned_to_caller /\ result.kind = "Ok")
        => /\ cur.op = "get_ambient_pressure"
                => AmbientPressure_to_u16(result.value) \in 700..1200
           /\ cur.op = "get_sensor_altitude"
                => SensorAltitude_to_u16(result.value) \in 0..3000

\* the documented range of each tuning parameter, in the order of the fields
TuningRanges == <<1..250, 1..1000, 1..1000, 0..3000, 10..5000, 1..1000>>

TuningFields(t) ==
    <<t.index_offset, t.learning_time_offset, t.learning_time_gain,
      t.gating_max_durations, t.initial_standard_deviation, t.gain_factor>>

\* the six values a tuning constructor or parser is given: the arguments
\* (NoxTuning::new supplies 50 as the standard deviation), or the reply's words
\* read as signed 16-bit values
TuningGiven ==
    CASE cur.op = "VocTuning_new" -> cur.data
      [] cur.op = "NoxTuning_new" -> [cur.data EXCEPT ![5] = 50]
      [] OTHER -> [i \in 1..6 |->
                     i16_from_be_bytes(received[3 * i - 2], received[3 * i - 1])]

\* C22: every VocTuning and NoxTuning, whether built by new, by default or
\* parsed from a reply, has its index offset in 1..=250, learning times in
\* 1..=1000, gating duration in 0..=3000, standard deviation in 10..=5000 and
\* gain factor in 1..=1000; a constructor call or correctly checksummed reply
\* with a value outside its range yields ValueOutOfRange and no instance, one
\* with all values inside yields the instance holding them.
C22_TuningRanges ==
    (pc = "done" /\ cur.op \in {"VocTuning_new", "NoxTuning_new", "VocTuning_try_from",
                                "NoxTuning_try_from", "VocTuning_default",
                                "NoxTuning_default"})
        => /\ result.kind = "Ok"
                => \A i \in 1..6 : TuningFields(result.value)[i] \in TuningRanges[i]
           /\ (cur.rx = 18 /\ cur.tx = 0)
                => IF \A i \in 1..6 : TuningGiven[i] \in TuningRanges[i]
                   THEN result.kind = "Ok" /\ TuningFields(result.value) = TuningGiven
                   ELSE result.kind = "Err" /\ result.value.err = "ValueOutOfRange"

C22_Witness ==
    /\ pc = "done"
    /\ cur.op = "NoxTuning_try_from"
    /\ received = SensorFrame(<<250, 1, 1000, 3000, 5000, 0>>)
    /\ result = Err(ValueOutOfRange("VOC Gain Factor", 1, 1000, ""))

\* C23 as stated: NoxTuning::default() holds index offset 1, learning times 12
\* and 12, gating duration 720, standard deviation 50 and gain factor 230, and
\* so equals NoxTuning::new(1, 12, 12, 720, 230); VocTuning::default() holds
\* 100, 12, 12, 180, 50, 230.
C23_TuningDefaults ==
    /\ (pc = "done" /\ cur.op = "NoxTuning_default")
          => /\ TuningFields(result.value) = <<1, 12, 12, 720, 50, 230>>
             /\ result = NoxTuning_new(1, 12, 12, 720, 230)
    /\ (pc = "done" /\ cur.op = "VocTuning_default")
          => TuningFields(result.value) = <<100, 12, 12, 180, 50, 230>>

\* C24: a VocTuning or NoxTuning built from in-range arguments, serialised to
\* its six words, framed with a checksum after each word and parsed again, is
\* equal to the original; the 18 framed bytes carry the six fields in order.
C24_TuningRoundTrip ==
    (pc = "done" /\ cur.tx = 1)
        => LET original == IF cur.op = "VocTuning_new"
                           THEN VocTuning_new(cur.data[1], cur.data[2], cur.data[3],
                                              cur.data[4], cur.data[5], cur.data[6])
                           ELSE NoxTuning_new(cur.data[1], cur.data[2], cur.data[3],
                                              cur.data[4], cur.data[6])
           IN  /\ original.kind = "Ok"
               /\ result = original
               /\ Len(received) = 18
               /\ \A i \in 1..6 :
                    /\ u16_from_be_bytes(received[3 * i - 2], received[3 * i - 1])
                         = TuningFields(original.value)[i]
                    /\ crc8_matches(<<received[3 * i - 2], received[3 * i - 1]>>,
                                    received[3 * i])

C24_Witness ==
    /\ pc = "done"
    /\ cur.tx = 1
    /\ cur.op = "NoxTuning_new"
    /\ cur.data = <<250, 1, 1000, 3000, 5000, 1000>>
    /\ result.kind = "Ok"
    /\ TuningFields(result.value) = <<250, 1, 1000, 3000, 50, 1000>>

\* a signed 16-bit value as the 16-bit word that carries it
WordOf(v) == IF v < 0 THEN v + 65536 ELSE v

\* C25: TemperatureOffset::new(offset, slope, time_constant, slot) succeeds
\* exactly when offset * 200 and slope * 10000 both fit a signed 16-bit value
\* and slot is within 0..=4; the four words of the value are then
\* offset * 200 and slope * 10000 (each modulo 2^16), time_constant and slot;
\* otherwise the call returns ValueOutOfRange.
C25_TemperatureOffsetScaling ==
    (pc = "done" /\ cur.op = "TemperatureOffset_new")
        => LET offset == cur.data[1]
               slope == cur.data[2]
           IN  IF /\ offset * 200 \in -32768..32767
                  /\ slope * 10000 \in -32768..32767
                  /\ cur.data[4] \in 0..4
               THEN /\ result.kind = "Ok"
                    /\ TemperatureOffset_to_words(result.value)
                         = <<WordOf(offset * 200), WordOf(slope * 10000),
                             cur.data[3], cur.data[4]>>
               ELSE /\ result.kind = "Err"
                    /\ result.value.err = "ValueOutOfRange"

C25_Witness ==
    /\ pc = "done"
    /\ cur.op = "TemperatureOffset_new"
    /\ cur.data = <<-163, -3, 65535, 4>>
    /\ result.kind = "Ok"
    /\ TemperatureOffset_to_words(result.value) = <<32936, 35536, 65535, 4>>

\* the result of the checked constructor named op on the arguments args
ConstructorResult(op, args) ==
    CASE op = "TemperatureOffset_new" ->
           TemperatureOffset_new(args[1], args[2], args[3], args[4])
      [] op = "TemperatureAcceleration_new" ->
           TemperatureAcceleration_new(args[1], args[2], args[3], args[4])
      [] op = "VocTuning_new" ->
           VocTuning_new(args[1], args[2], args[3], args[4], args[5], args[6])
      [] op = "NoxTuning_new" ->
           NoxTuning_new(args[1], args[2], args[3], args[4], args[6])
      [] op = "AmbientPressure" -> AmbientPressure_try_from_u16(args[1])
      [] op = "SensorAltitude" -> SensorAltitude_try_from_u16(args[1])

\* the values of the i-th parameter's type that are tried in its place
ProbeValues(op, i) ==
    LET probes == {-32768, -164, -163, -4, -3, -1, 0, 1, 3, 4, 5, 9, 10, 163, 164, 250,
                   251, 699, 700, 1000, 1001, 1200, 1201, 3000, 3001, 5000, 5001, 6553,
                   6554, 32767, 65535}
        signed == \/ op \in {"VocTuning_new", "NoxTuning_new"}
                  \/ op = "TemperatureOffset_new" /\ i \in {1, 2}
    IN  IF signed THEN probes \cap (I16_MIN..I16_MAX) ELSE probes \cap (0..U16_MAX)

\* C26 as stated: when a checked constructor fails with ValueOutOfRange, the
\* reported min and max are the real bounds of the rejected parameter: its
\* value lies outside min..=max, and putting another value in its place leads
\* to the same rejection exactly when that value lies outside min..=max.
C26_ReportedBoundsAreReal ==
    (/\ pc = "done"
     /\ cur.op \in {"TemperatureOffset_new", "TemperatureAcceleration_new",
                    "VocTuning_new", "NoxTuning_new", "AmbientPressure", "SensorAltitude"}
     /\ cur.tx = 0
     /\ result.kind = "Err")
        => /\ result.value.err = "ValueOutOfRange"
           /\ \E i \in 1..Len(cur.data) :
                /\ cur.data[i] \notin result.value.min..result.value.max
                /\ \A v \in ProbeValues(cur.op, i) :
                     (ConstructorResult(cur.op, [cur.data EXCEPT ![i] = v]) = result)
                        <=> v \notin result.value.min..result.value.max

\* the same statement for the constructors other than TemperatureOffset::new
C26_HoldsForUnsignedAndRanges ==
    cur.op # "TemperatureOffset_new" => C26_ReportedBoundsAreReal

\* C27: for a status register with the 16-bit halves w0 (bits 31..16) and w1
\* (bits 15..0), has_error returns an error exactly when one of the bits 11, 9,
\* 7, 6, 4 is set, and the flags pm, co2, gas, rht, fan of the DeviceError are
\* those bits in that order; bit 21 (the fan speed warning) and every other bit
\* change nothing.
C27_HasError ==
    (pc = "done" /\ cur.op = "has_error")
        => LET w1 == cur.data[2]
               pm == BitAnd(w1, 2048) # 0
               co2 == BitAnd(w1, 512) # 0
               gas == BitAnd(w1, 128) # 0
               rht == BitAnd(w1, 64) # 0
               fan == BitAnd(w1, 16) # 0
           IN  IF BitAnd(w1, 2768) # 0
               THEN result = Err([pm |-> pm, co2 |-> co2, gas |-> gas,
                                  rht |-> rht, fan |-> fan])
               ELSE result = Ok(<<>>)

C27_Witness ==
    /\ pc = "done"
    /\ cur.op = "has_error"
    /\ cur.data = <<65535, 62767>>
    /\ fan_speed_warning(DeviceStatusRegister_try_from(received).value)
    /\ result = Ok(<<>>)

\* C28: a 6-byte status reply whose two checksums are correct decodes to the
\* register w0 * 65536 + w1, where w0 is the big-endian word of bytes 0 and 1
\* and w1 that of bytes 3 and 4; the checksum bytes 2 and 5 are no part of the
\* value.  (The register is held as its halves hi = w0 and lo = w1.)
C28_StatusRegisterDecoding ==
    (/\ pc = "done"
     /\ cur.op = "DeviceStatusRegister"
     /\ Len(received) = 6
     /\ received[3] = compute_crc8(<<received[1], received[2]>>)
     /\ received[6] = compute_crc8(<<received[4], received[5]>>))
        => result = Ok([hi |-> received[1] * 256 + received[2],
                        lo |-> received[4] * 256 + received[5]])

C28_Witness ==
    /\ pc = "done"
    /\ cur.op = "DeviceStatusRegister"
    /\ cur.helper = "intact"
    /\ Len(received) = 6
    /\ received[1] = 190 /\ received[2] = 239
    /\ received[4] = 0 /\ received[5] = 1
    /\ result = Ok([hi |-> 48879, lo |-> 1])

\* the 32 data bytes of a 48-byte reply: every third byte is a checksum
NameBytes == [i \in 1..32 |-> received[i + (i - 1) \div 2]]

\* the position of the first null terminator among the data bytes, 32 if none
NameEnd ==
    IF \E i \in 1..32 : NameBytes[i] = 0
    THEN CHOOSE i \in 1..32 : NameBytes[i] = 0 /\ \A j \in 1..(i - 1) : NameBytes[j] # 0
    ELSE 32

\* C29: for every accepted 48-byte name or serial number reply the returned
\* buffer is the reply's data bytes up to and including the first 0x00, or all
\* 32 of them when none is 0x00; its length is between 1 and 32.
C29_NameBuffer ==
    (pc = "done" /\ cur.op = "ProductName_try_from" /\ result.kind = "Ok")
        => /\ get_buffer(result.value) = SubSeq(NameBytes, 1, NameEnd)
           /\ result.value.len = NameEnd
           /\ result.value.len \in 1..32
           /\ NameBytes = cur.data

C29_Witness ==
    /\ pc = "done"
    /\ cur.op = "ProductName_try_from"
    /\ SubSeq(cur.data, 1, 6) = <<65, 66, 67, 0, 195, 195>>
    /\ result.kind = "Ok"
    /\ get_buffer(result.value) = <<65, 66, 67, 0>>

\* C30 as stated: a correctly checksummed name or serial number reply whose 32
\* data bytes hold no null terminator is rejected with NotASCIIString, as a
\* reply holding a non-ASCII byte before its terminator is.
C30_MissingTerminatorRejected ==
    (pc = "done" /\ cur.op = "ProductName_try_from")
        => /\ (\A i \in 1..32 : NameBytes[i] # 0) => result = Err(NotASCIIString)
           /\ (\E i \in 1..NameEnd : NameBytes[i] >= 128) => result = Err(NotASCIIString)

\* the execution time written on each command's variant (its doc comment)
DocumentedExecutionTime(command) ==
    CASE command = "StartContinuousMeasurement" -> 50
      [] command = "StopMeasurement" -> 1000
      [] command = "ResetDevice" -> 1200
      [] command = "StartFanCleaning" -> 1
      [] command = "ActivateShtHeater" -> 1300
      [] command = "ForcedRecalibration" -> 500
      [] OTHER -> 20

\* C31 as stated: the delay requested after a command's write is the execution
\* time documented on the command's variant: 50 ms to start, 1000 ms to stop,
\* 1200 ms for ResetDevice, 1 ms for StartFanCleaning, 1300 ms for
\* ActivateShtHeater, 500 ms for ForcedRecalibration, 20 ms for all others.
C31_DelayIsDocumentedTime ==
    \A i \in 1..Len(log) :
        log[i].kind = "delay" => log[i].n = DocumentedExecutionTime(cur.command)

\* a 16-bit word read as a two's-complement signed value
SignedWord(w) == IF w >= 32768 THEN w - 65536 ELSE w

\* C32: a correctly checksummed 27-byte measurement reply with the words
\* w1..w9 yields PM1.0, PM2.5, PM4.0 and PM10.0 as w1..w4 (unsigned) over 10,
\* relative humidity, temperature, VOC index and NOx index as w5..w8 (signed)
\* over 100, 200, 10 and 10, and CO2 as w9 unsigned and unscaled; a CO2 word
\* of 0xFFFF is returned as 65535 without an error.
C32_MeasurementFields ==
    (pc = "done" /\ cur.op = "Measurement_try_from")
        => LET w == cur.data IN
           /\ w = [i \in 1..9 |-> received[3 * i - 2] * 256 + received[3 * i - 1]]
           /\ result =
                Ok([pm1_0 |-> [num |-> w[1], den |-> 10],
                    pm2_5 |-> [num |-> w[2], den |-> 10],
                    pm4_0 |-> [num |-> w[3], den |-> 10],
                    pm10_0 |-> [num |-> w[4], den |-> 10],
                    relative_humidity |-> [num |-> SignedWord(w[5]), den |-> 100],
                    temperature |-> [num |-> SignedWord(w[6]), den |-> 200],
                    voc_index |-> [num |-> SignedWord(w[7]), den |-> 10],
                    nox_index |-> [num |-> SignedWord(w[8]), den |-> 10],
                    co2 |-> w[9]])

C32_Witness ==
    /\ pc = "done"
    /\ cur.op = "Measurement_try_from"
    /\ cur.data = <<1001, 2002, 3003, 4004, 5005, 6006, 7007, 8008, 65535>>
    /\ result.kind = "Ok"
    /\ result.value.co2 = 65535
    /\ result.value.temperature = [num |-> 6006, den |-> 200]

\* the number of transport requests of one kind the current call has made
Requests(kind) == Cardinality({ i \in 1..Len(log) : log[i].kind = kind })

\* C33: no operation retries.  Whatever the transport and the parser answer,
\* one call makes at most one transport write and at most one transport read;
\* a call that sends a command (every operation that passed its state gate,
\* the stop inside shutdown included) has made exactly one write when it
\* returns, and a failed write or read ends the call.
C33_NoRetry ==
    /\ [](Requests("write") <= 1 /\ Requests("read") <= 1)
    /\ [](Returned_to_caller /\ cur.op \notin {"new", "kill", "shutdown"}
            /\ result.kind \notin {"WrongState", "Panic"}
            => Requests("write") = 1)
    /\ [][ (Len(log') > Len(log) /\ ~log'[Len(log')].ok) => pc' = "ready" ]_vars

C33_Witness ==
    /\ Returned_to_caller
    /\ cur.op = "read_measured_values"
    /\ result = I2cError
    /\ Kinds(log) = <<"write", "delay", "read">>
    /\ ~log[3].ok

\* C34 as stated: the direction of a transaction is the low bit of the address
\* handed to the transport: every write uses the fixed address with low bit 0,
\* every read uses it with low bit 1, and so the two addresses differ.
C34_DirectionInLowAddressBit ==
    /\ \A i \in 1..Len(log) :
         /\ log[i].kind = "write" => log[i].address % 2 = 0
         /\ log[i].kind = "read" => log[i].address % 2 = 1
    /\ \A i, j \in 1..Len(log) :
         (log[i].kind = "write" /\ log[j].kind = "read")
            => log[i].address # log[j].address

\* C35: when shutdown is called while Measuring and the stop-measurement write
\* fails, shutdown returns the transport error and hands back neither the
\* delay nor the transport; the instance is gone, so no operation (a second
\* shutdown included) can be called on it: the only step left is to build a
\* new driver.
C35_FailedShutdownDropsInstance ==
    /\ [](cur.outer = "shutdown" /\ pc = "ready" /\ Len(log) = 1 /\ ~log[1].ok
            => /\ result = I2cError
               /\ owner = "dropped"
               /\ ~CanCall)
    /\ [][ owner = "dropped"
            => /\ owner' = "driver"
               /\ state' = "Idle"
               /\ cur' = NoCall
               /\ log' = <<>> ]_vars

C35_Witness ==
    /\ cur.outer = "shutdown"
    /\ cur.op = "stop_measurement"
    /\ pc = "ready"
    /\ Kinds(log) = <<"write">>
    /\ ~log[1].ok
    /\ result = I2cError
    /\ owner = "dropped"
    /\ state = "Measuring"

\* C36: a correctly checksummed 48-byte name or serial number reply is
\* rejected with NotASCIIString exactly when a data byte of value 0x80 or
\* above lies at or before the first null terminator (anywhere, when there is
\* none); checksum bytes of value 0x80 or above and data bytes after the
\* terminator never cause a rejection.
C36_NonAsciiBeforeTerminator ==
    (pc = "done" /\ cur.op = "ProductName_try_from")
        => IF \E i \in 1..NameEnd : NameBytes[i] >= 128
           THEN result = Err(NotASCIIString)
           ELSE result.kind = "Ok"

C36_Witness ==
    /\ pc = "done"
    /\ cur.op = "ProductName_try_from"
    /\ result.kind = "Ok"
    /\ NameEnd < 32
    /\ \E i \in 1..NameEnd : received[3 * ((i + 1) \div 2)] >= 128
    /\ \E i \in (NameEnd + 1)..32 : NameBytes[i] >= 128

\* C37 as stated: when TemperatureOffset::new fails only because slot is
\* greater than 4, the ValueOutOfRange error names the slot parameter, not the
\* offset or the slope, with min 0 and max 4.
C37_SlotErrorNamesSlot ==
    (/\ pc = "done"
     /\ cur.op = "TemperatureOffset_new"
     /\ cur.data[1] * 200 \in I16_MIN..I16_MAX
     /\ cur.data[2] * 10000 \in I16_MIN..I16_MAX
     /\ cur.data[4] > 4)
        => /\ result.kind = "Err"
           /\ result.value.err = "ValueOutOfRange"
           /\ result.value.min = 0
           /\ result.value.max = 4
           /\ result.value.parameter \notin {"Temperature Offset", "Temperature Slope"}

\* C38: take two data bytes, append the checksum compute_crc8 gives them, and
\* invert any one bit of either data byte: check_deserialization answers
\* CrcFailed for the corrupted group (and Ok for the intact one), so no
\* single-bit corruption of a data byte is decoded into a value.  Evaluated
\* for the pairs in which one byte is among eight values and the other is any
\* of the 256, which gives every value to each of the two positions.
C38_DataBitFlipDetected ==
    (/\ pc = "done"
     /\ cur.op = "compute_crc8"
     /\ \E i \in 1..2 : received[i] \in {0, 1, 49, 85, 128, 170, 190, 255})
        => LET frame == received \o <<result.value>> IN
           /\ check_deserialization(frame, 3).kind = "Ok"
           /\ \A i \in 1..2, bit \in 0..7 :
                check_deserialization(FlipBit(frame, i, bit), 3) = Err(CrcFailed)

C38_Witness ==
    /\ pc = "done"
    /\ cur.op = "compute_crc8"
    /\ received = <<190, 239>>
    /\ result = Ok(146)
    /\ check_deserialization(<<190, 111, 146>>, 3) = Err(CrcFailed)

\* the length of the buffer each reading operation's parser requires
ReplyLength(op) ==
    CASE op = "is_data_ready" -> 3
      [] op = "read_measured_values" -> 27
      [] op \in {"read_measured_raw_values", "read_number_concentrations"} -> 15
      [] op \in {"get_product_name", "get_serial_number"} -> 48
      [] op \in {"read_device_status", "read_and_clear_device_status"} -> 6
      [] op \in {"get_voc_tuning_parameters", "get_nox_tuning_parameters"} -> 18
      [] op = "get_voc_algorithm_state" -> 12
      [] op \in {"perform_forced_co2_recalibration", "get_co2_asc_state",
                 "get_ambient_pressure", "get_sensor_altitude"} -> 3

\* C39: every reading operation requests from the transport a reply of the
\* length its parser requires (data-ready 3, measurement 27, raw measurement
\* and number concentrations 15, name and serial number 48, device status 6,
\* tuning 18, VOC algorithm state 12, FRC, ASC, pressure and altitude 3), the
\* buffer handed to the parser has that length, and so no operation of the
\* driver returns ReceivedBufferWrongSize.
C39_ReplyLengthMatchesParser ==
    /\ \A i \in 1..Len(log) : log[i].kind = "read" => log[i].n = ReplyLength(cur.op)
    /\ (pc = "tail" /\ cur.helper = "write_read")
          => Len(received) = ReplyLength(cur.op)
    /\ Returned_to_caller => result # DataError(ReceivedBufferWrongSize)

C39_Witness ==
    /\ Returned_to_caller
    /\ cur.op = "get_serial_number"
    /\ Kinds(log) = <<"write", "delay", "read">>
    /\ log[3].n = 48
    /\ Len(received) = 48
    /\ result.kind = "Ok"

\* the step in which a start_measurement returns Ok
SuccessfulStart ==
    /\ pc = "tail" /\ pc' = "ready"
    /\ cur.op = "start_measurement"
    /\ result'.kind = "Ok"

\* the step in which a stop_measurement (shutdown's included) returns Ok
SuccessfulStop ==
    /\ pc = "tail" /\ pc' = "ready"
    /\ cur.op = "stop_measurement"
    /\ result'.kind = "Ok"

\* the steps a call in flight still has to take before it returns
StepsLeft(p) ==
    CASE p = "write" -> 4
      [] p = "delay" -> 3
      [] p = "read" -> 2
      [] p = "tail" -> 1
      [] OTHER -> 0

\* an upper bound on the number of steps after which a driver instance in
\* state `target` exists, all transport outcomes being favourable
StepsTo(target, o, s, p, c) ==
    IF o = "driver" /\ s = target THEN 0
    ELSE IF o # "driver" THEN (IF target = "Idle" THEN 1 ELSE 6)
    ELSE IF p = "ready" THEN 5
    ELSE IF /\ c.outer = "none"
            /\ c.op = (IF target = "Measuring" THEN "start_measurement" ELSE "stop_measurement")
         THEN StepsLeft(p)
    ELSE 6 + StepsLeft(p)

\* some step of the driver brings an instance in state `target` nearer
Approaches(target) ==
    /\ Next
    /\ StepsTo(target, owner', state', pc', cur') < StepsTo(target, owner, state, pc, cur)

\* C40: a freshly created driver is Idle; a successful start_measurement is
\* taken in Idle and leaves Measuring, a successful stop_measurement is taken in
\* Measuring and leaves Idle, and no other step of an instance changes its
\* state, so that the state is Measuring exactly when the last successful
\* state change was a start and successful starts and stops alternate,
\* a start coming first; from every reachable state a driver in Idle and a
\* driver in Measuring can still be reached.
C40_StateFollowsLastSuccess ==
    /\ [](owner = "driver" /\ cur.op = "none" => state = "Idle")
    /\ [][ owner # "driver" /\ owner' = "driver" => state' = "Idle" /\ cur'.op = "none" ]_vars
    /\ [][ SuccessfulStart => state = "Idle" /\ state' = "Measuring" ]_vars
    /\ [][ SuccessfulStop => state = "Measuring" /\ state' = "Idle" ]_vars
    /\ [][ (owner = "driver" /\ ~SuccessfulStart /\ ~SuccessfulStop) => state' = state ]_vars
    /\ [](\A target \in {"Idle", "Measuring"} :
            StepsTo(target, owner, state, pc, cur) > 0 => ENABLED Approaches(target))

\* a stop has succeeded, after the start that had to precede it
C40_Witness ==
    /\ Returned_to_caller
    /\ owner = "driver"
    /\ cur.op = "stop_measurement"
    /\ result = Ok(<<>>)
    /\ state = "Idle"
    /\ Kinds(log) = <<"write", "delay">>

====
